---- MODULE Spec2Model ----
(***************************************************************************)
(* A model of the non_empty_continuous crate: NonEmptySlice<T>,            *)
(* NonEmptyVec<T> and NonEmptySmallVec<A>, thin wrappers around [T],       *)
(* Vec<T> and SmallVec<A> that are meant to hold at least one element.     *)
(*                                                                         *)
(* A Vec<T> is the record [elems, cap]: its initialised elements in order  *)
(* and its capacity.  A tuple struct S(x) is the record [f0 |-> x].        *)
(* Every method is an operator that returns the SET of its possible        *)
(* outcomes [self |-> receiver afterwards, ret |-> returned value]: the    *)
(* allocator's choice of a new capacity and the outcomes of undefined      *)
(* behaviour are nondeterministic.                                         *)
(***************************************************************************)
EXTENDS Integers, Sequences, FiniteSets, TLC

\* Bounds of the model.
MaxLen == 3        \* longest vector the additive operations build
NumElems == 2      \* number of distinct element values
MaxArgLen == 2     \* longest sequence passed to extend / append / splice
MaxTrail == 3      \* longest chain of conversions applied to one value
InlineSize == 2    \* N of the SmallVec<[T; N]> instantiation modelled

Elem == 1..NumElems
MaxCap == MaxLen + 1
Idx == 0..MaxLen
ArgSeqs == UNION {[1..n -> Elem] : n \in 0..MaxArgLen}
AllSeqs == UNION {[1..n -> Elem] : n \in 0..MaxLen}

VARIABLES
  \* Spec: one NonEmptyVec under its safe operations
  vec,      \* the NonEmptyVec under operation
  pre,      \* vec before the last operation
  op,       \* the last operation: [name, args]
  ret,      \* what the last operation returned
  drainh,   \* the outstanding std::vec::Drain handle, or NoDrain
  \* ScenarioSpec: new(x), pushes, then try_pops
  sv,       \* the NonEmptyVec of the scenario
  sx,       \* the item it was built from
  pushed,   \* the values pushed, in push order
  popped,   \* what the try_pop calls returned, in call order
  \* ConvSpec: constructors and conversions
  origin,   \* the value the conversions started from
  cur,      \* the value the last conversion returned
  trail,    \* the conversions applied to origin, in order
  \* SmallSpec: one NonEmptySmallVec under its safe operations
  small,      \* the NonEmptySmallVec under operation
  smallPre,   \* small before the last operation
  smallOp,    \* the last operation: [name, args]
  smallRet,   \* what the last operation returned
  smallDrain, \* the outstanding smallvec::Drain handle, or NoDrain
  cloned      \* a clone of small taken earlier, the source of clone_from

vecVars == <<vec, pre, op, ret, drainh>>
scVars == <<sv, sx, pushed, popped>>
convVars == <<origin, cur, trail>>
smallVars == <<small, smallPre, smallOp, smallRet, smallDrain, cloned>>
vars == <<vecVars, scVars, convVars, smallVars>>

----------------------------------------------------------------------------
\* Values of the Rust prelude.

None == [tag |-> "None"]
Some(x) == [tag |-> "Some", val |-> x]
Ok(x) == [tag |-> "Ok", val |-> x]
Err(x) == [tag |-> "Err", val |-> x]
Unit == [tag |-> "Unit"]
\* A value of type T handed back by the backing store.
Returned(x) == [tag |-> "Returned", val |-> x]
\* An unwinding panic: the operation did not return a value.
Panic == [tag |-> "Panic"]
\* The process was aborted by a failed unsafe-precondition check.
Abort == [tag |-> "Abort"]

Min(a, b) == IF a <= b THEN a ELSE b
Max(a, b) == IF a >= b THEN a ELSE b

Take(s, n) == SubSeq(s, 1, Min(n, Len(s)))
Drop(s, n) == SubSeq(s, n + 1, Len(s))

Outcome(self, r) == [self |-> self, ret |-> r]

----------------------------------------------------------------------------
\* std::ops::RangeBounds<usize>: a start bound and an end bound.

Unbounded == [b |-> "Unbounded", i |-> 0]
Included(i) == [b |-> "Included", i |-> i]
Excluded(i) == [b |-> "Excluded", i |-> i]
Bounds == {Unbounded} \cup {Included(i) : i \in Idx} \cup {Excluded(i) : i \in Idx}
Ranges == [lo : Bounds, hi : Bounds]
RangeFull == [lo |-> Unbounded, hi |-> Unbounded]

\* The model's stand-in for usize::MAX, which 0usize - 1 wraps to in a build
\* without overflow checks: it is above every index and every bound.
UsizeMax == 0 - 1

\* RangeBounds::contains(&item), as range.contains(..) is called in drain.
RangeContains(r, item) ==
  /\ CASE r.lo.b = "Included" -> (item = UsizeMax \/ r.lo.i <= item)
       [] r.lo.b = "Excluded" -> (item = UsizeMax \/ r.lo.i < item)
       [] OTHER -> TRUE
  /\ CASE r.hi.b = "Included" -> (item # UsizeMax /\ item <= r.hi.i)
       [] r.hi.b = "Excluded" -> (item # UsizeMax /\ item < r.hi.i)
       [] OTHER -> TRUE

\* core::slice::range(range, ..len): the half-open index range start..end
\* the backing store resolves a RangeBounds to, or a panic.
RangeStart(r) ==
  CASE r.lo.b = "Included" -> r.lo.i
    [] r.lo.b = "Excluded" -> r.lo.i + 1
    [] OTHER -> 0
RangeEnd(r, len) ==
  CASE r.hi.b = "Included" -> r.hi.i + 1
    [] r.hi.b = "Excluded" -> r.hi.i
    [] OTHER -> len
RangeValid(r, len) == RangeStart(r) <= RangeEnd(r, len) /\ RangeEnd(r, len) <= len

----------------------------------------------------------------------------
\* The backing store, std::vec::Vec<T>, as the wrapper calls it.

MkVec(elems, cap) == [elems |-> elems, cap |-> cap]

\* The capacities the allocator may leave after making room for `needed`
\* elements: unchanged when they fit, otherwise any capacity that holds them.
GrowCaps(v, needed) ==
  IF needed <= v.cap THEN {v.cap} ELSE needed..Max(needed, MaxCap)

\* Vec::new()
VecNew == MkVec(<<>>, 0)

\* Vec::with_capacity(capacity): at least `capacity`.
VecWithCapacity(capacity) == {MkVec(<<>>, c) : c \in capacity..Max(capacity, MaxCap)}

\* Vec::push
VecPush(v, value) ==
  {MkVec(Append(v.elems, value), c) : c \in GrowCaps(v, Len(v.elems) + 1)}

\* Vec::pop
VecPop(v) ==
  IF v.elems = <<>> THEN Outcome(v, None)
  ELSE Outcome(MkVec(Take(v.elems, Len(v.elems) - 1), v.cap),
               Some(v.elems[Len(v.elems)]))

\* Vec::insert: panics if index > len.
VecInsert(v, index, element) ==
  IF index > Len(v.elems) THEN {Outcome(v, Panic)}
  ELSE {Outcome(MkVec(Take(v.elems, index) \o <<element>> \o Drop(v.elems, index), c), Unit) :
          c \in GrowCaps(v, Len(v.elems) + 1)}

\* Vec::remove: panics if index >= len.
VecRemove(v, index) ==
  IF index >= Len(v.elems) THEN Outcome(v, Panic)
  ELSE Outcome(MkVec(Take(v.elems, index) \o Drop(v.elems, index + 1), v.cap),
               Returned(v.elems[index + 1]))

\* Vec::swap_remove: panics if index >= len; the last element takes the place.
VecSwapRemove(v, index) ==
  IF index >= Len(v.elems) THEN Outcome(v, Panic)
  ELSE LET n == Len(v.elems)
           swapped == [v.elems EXCEPT ![index + 1] = v.elems[n]]
       IN Outcome(MkVec(Take(swapped, n - 1), v.cap), Returned(v.elems[index + 1]))

\* Vec::truncate: no effect when len is not below the current length.
VecTruncate(v, len) == MkVec(Take(v.elems, len), v.cap)

\* Vec::append(&mut other): moves all of other's elements, leaving it empty.
VecAppend(v, other) ==
  {[self |-> MkVec(v.elems \o other.elems, c), other |-> MkVec(<<>>, other.cap)] :
     c \in GrowCaps(v, Len(v.elems) + Len(other.elems))}

\* Vec::extend / Vec::extend_from_slice
VecExtend(v, items) ==
  {MkVec(v.elems \o items, c) : c \in GrowCaps(v, Len(v.elems) + Len(items))}

\* Vec::extend_from_within(src): panics if the range is out of bounds.
VecExtendFromWithin(v, r) ==
  IF ~RangeValid(r, Len(v.elems)) THEN {Outcome(v, Panic)}
  ELSE LET part == SubSeq(v.elems, RangeStart(r) + 1, RangeEnd(r, Len(v.elems)))
       IN {Outcome(w, Unit) : w \in VecExtend(v, part)}

\* Vec::split_off(at): panics if at > len; returns the elements from at on.
VecSplitOff(v, at) ==
  IF at > Len(v.elems) THEN Outcome(v, Panic)
  ELSE Outcome(MkVec(Take(v.elems, at), v.cap),
               Returned(MkVec(Drop(v.elems, at), Len(v.elems) - at)))

\* Vec::resize / Vec::resize_with, the filler producing `value` each time.
VecResize(v, new_len, value) ==
  IF new_len <= Len(v.elems) THEN {VecTruncate(v, new_len)}
  ELSE VecExtend(v, [i \in 1..(new_len - Len(v.elems)) |-> value])

\* The closures given to dedup_by (same_bucket) and dedup_by_key (key).
SameBuckets == {"eq", "always", "never"}
SameBucket(f, a, b) ==
  CASE f = "eq" -> a = b
    [] f = "always" -> TRUE
    [] OTHER -> FALSE
Keys == {"id", "const"}
Key(k, a) == IF k = "id" THEN a ELSE 0

\* Vec::dedup_by: removes every element for which same_bucket(element,
\* last element kept) holds.
RECURSIVE DedupFrom(_, _, _)
DedupFrom(kept, rest, f) ==
  IF rest = <<>> THEN kept
  ELSE IF kept # <<>> /\ SameBucket(f, Head(rest), kept[Len(kept)])
       THEN DedupFrom(kept, Tail(rest), f)
       ELSE DedupFrom(Append(kept, Head(rest)), Tail(rest), f)
VecDedupBy(v, f) == MkVec(DedupFrom(<<>>, v.elems, f), v.cap)

\* Vec::dedup_by_key
RECURSIVE DedupKeyFrom(_, _, _)
DedupKeyFrom(kept, rest, k) ==
  IF rest = <<>> THEN kept
  ELSE IF kept # <<>> /\ Key(k, Head(rest)) = Key(k, kept[Len(kept)])
       THEN DedupKeyFrom(kept, Tail(rest), k)
       ELSE DedupKeyFrom(Append(kept, Head(rest)), Tail(rest), k)
VecDedupByKey(v, k) == MkVec(DedupKeyFrom(<<>>, v.elems, k), v.cap)

\* Vec::reserve / Vec::reserve_exact
VecReserve(v, additional) ==
  {MkVec(v.elems, c) : c \in GrowCaps(v, Len(v.elems) + additional)}

\* std::collections::TryReserveError
TryReserveError == [tag |-> "TryReserveError"]

\* Vec::try_reserve / Vec::try_reserve_exact: reserve, unless the allocation
\* that the growth needs fails; then the vector is as it was.
VecTryReserve(v, additional) ==
  {Outcome(w, Ok(Unit)) : w \in VecReserve(v, additional)}
    \cup (IF v.cap - Len(v.elems) >= additional THEN {}
          ELSE {Outcome(v, Err(TryReserveError))})

\* Vec::shrink_to_fit: the capacity may stay above the length.
VecShrinkToFit(v) == {MkVec(v.elems, c) : c \in Len(v.elems)..v.cap}

\* Vec::shrink_to(min_capacity)
VecShrinkTo(v, min_capacity) ==
  {MkVec(v.elems, c) : c \in Min(v.cap, Max(Len(v.elems), min_capacity))..v.cap}

\* <[T]>::to_vec, and Vec::from(&[T]): a clone in a fresh allocation.
SliceToVec(slice) == {MkVec(slice, v.cap) : v \in VecWithCapacity(Len(slice))}

\* Vec::from(Box<[T]>): the allocation is taken over, capacity = length.
BoxIntoVec(boxed) == MkVec(boxed, Len(boxed))

\* Vec::into_boxed_slice: the excess capacity is dropped.
VecIntoBoxedSlice(v) == v.elems

\* std::vec::Drain: created by Vec::drain, which sets the vector's length to
\* the start of the range at once; the handle keeps what is still to be
\* yielded and the tail to move back when it is dropped.
NoDrain == [tag |-> "NoDrain"]
VecDrain(v, r) ==
  IF ~RangeValid(r, Len(v.elems)) THEN Outcome(v, Panic)
  ELSE LET s == RangeStart(r)
           e == RangeEnd(r, Len(v.elems))
       IN Outcome(MkVec(Take(v.elems, s), v.cap),
                  [tag |-> "Drain", iter |-> SubSeq(v.elems, s + 1, e),
                   tail |-> Drop(v.elems, e), yielded |-> <<>>])

\* next taking the elements from the back of the range.
Mutant_drain_next_from_back(d) ==
  IF d.iter = <<>> THEN Outcome(d, None)
  ELSE LET x == d.iter[Len(d.iter)]
       IN Outcome([d EXCEPT !.iter = Take(d.iter, Len(d.iter) - 1),
                            !.yielded = Append(d.yielded, x)],
                  Some(x))

\* Iterator::next on the Drain
DrainNext(d) ==
  IF d.iter = <<>> THEN Outcome(d, None)
  ELSE Outcome([d EXCEPT !.iter = Tail(d.iter), !.yielded = Append(d.yielded, Head(d.iter))],
               Some(Head(d.iter)))

\* Drop for Drain: the unyielded elements are dropped and the tail is moved
\* back behind the elements before the range.
DrainDrop(v, d) == MkVec(v.elems \o d.tail, v.cap)

\* Vec::splice(range, replace_with) with the Splice dropped at once: the
\* range is drained and the replacement takes its place.
VecSplice(v, r, items) ==
  IF ~RangeValid(r, Len(v.elems)) THEN {Outcome(v, Panic)}
  ELSE LET s == RangeStart(r)
           e == RangeEnd(r, Len(v.elems))
           out == Take(v.elems, s) \o items \o Drop(v.elems, e)
       IN {Outcome(MkVec(out, c), Returned(SubSeq(v.elems, s + 1, e))) :
             c \in GrowCaps(v, Len(out))}

----------------------------------------------------------------------------
\* NonEmptySlice<T>(pub(crate) [T]), behind a reference.

\* NonEmptySlice::from_slice_unchecked / from_slice_unchecked_mut: a transmute.
NonEmptySlice_from_slice_unchecked(slice) == [f0 |-> slice]

\* NonZeroUsize::new_unchecked(n): undefined behaviour for n = 0.  A build
\* with the precondition check aborts; a build without it carries the 0 on.
NonZeroUsize_new_unchecked(n) ==
  IF n = 0 THEN {[abort |-> TRUE, get |-> 0], [abort |-> FALSE, get |-> 0]}
  ELSE {[abort |-> FALSE, get |-> n]}

\* NonEmptySlice::len
NonEmptySlice_len(self) == NonZeroUsize_new_unchecked(Len(self.f0))

\* NonEmptySlice::get_len
NonEmptySlice_get_len(self) == NonEmptySlice_len(self)

\* NonEmptySlice::has_just_1_element
NonEmptySlice_has_just_1_element(self) ==
  {[abort |-> l.abort, val |-> (l.get = 1)] : l \in NonEmptySlice_get_len(self)}

\* <[T]>::get_unchecked(index): undefined behaviour when index is not an
\* index of the slice.  A build with the precondition check aborts; a build
\* without it reads whatever lies there, or faults.
SliceGetUnchecked(slice, index) ==
  IF 0 <= index /\ index < Len(slice) THEN {Returned(slice[index + 1])}
  ELSE {Abort} \cup {Returned(x) : x \in Elem}

\* NonEmptySlice::first / first_mut
NonEmptySlice_first(self) == SliceGetUnchecked(self.f0, 0)

\* NonEmptySlice::last / last_mut: get_unchecked(self.get_len() - 1).  At
\* length 0 the subtraction panics where overflow is checked, else wraps.
NonEmptySlice_last(self) ==
  UNION {IF l.abort THEN {Abort}
         ELSE IF l.get = 0 THEN {Panic} \cup SliceGetUnchecked(self.f0, UsizeMax)
         ELSE SliceGetUnchecked(self.f0, l.get - 1) : l \in NonEmptySlice_get_len(self)}

\* try_from_slice refusing a slice of one element too.
Mutant_try_from_slice_refuses_one(slice) ==
  IF Len(slice) <= 1 THEN Err(slice)
  ELSE Ok(NonEmptySlice_from_slice_unchecked(slice))

\* NonEmptySlice::try_from_slice / try_from_slice_mut
NonEmptySlice_try_from_slice(slice) ==
  IF Len(slice) = 0 THEN Err(slice)
  ELSE Ok(NonEmptySlice_from_slice_unchecked(slice))

\* NonEmptySlice::to_vec
NonEmptySlice_to_vec(self) == {[f0 |-> v] : v \in SliceToVec(self.f0)}

\* into_vec handing from_raw_parts a length one short of the box's.
Mutant_into_vec_short(self) ==
  [f0 |-> MkVec(SubSeq(self.f0, 1, Len(self.f0) - 1), Len(self.f0))]

\* NonEmptySlice::into_vec, self a Box<NonEmptySlice<T>>: Vec::from_raw_parts
\* with the box's pointer, its length as length and as capacity.
NonEmptySlice_into_vec(self) == [f0 |-> MkVec(self.f0, Len(self.f0))]

\* <[T]>::repeat(n)
RECURSIVE SliceRepeat(_, _)
SliceRepeat(slice, n) == IF n = 0 THEN <<>> ELSE slice \o SliceRepeat(slice, n - 1)

\* repeat making one copy whatever n is.
Mutant_repeat_once(self, n) ==
  {[f0 |-> MkVec(self.f0, c)] : c \in Len(self.f0) .. Max(Len(self.f0), MaxCap)}

\* NonEmptySlice::repeat, n a NonZeroUsize
NonEmptySlice_repeat(self, n) ==
  {[f0 |-> MkVec(SliceRepeat(self.f0, n), c)] :
     c \in Len(self.f0) * n .. Max(Len(self.f0) * n, MaxCap)}

\* Index<RangeFull> / IndexMut<RangeFull> for NonEmptySlice: self.
NonEmptySlice_index_range_full(self) == Returned(self)

\* Indexing by ..=end taken as ..end.
Mutant_index_range_to_exclusive(self, end) ==
  IF end >= Len(self.f0) THEN Panic
  ELSE Returned(NonEmptySlice_from_slice_unchecked(SubSeq(self.f0, 1, end)))

\* Index<RangeToInclusive<usize>> for NonEmptySlice: &self.0[..=end] panics
\* when end is not an index of the slice.
NonEmptySlice_index_range_to_inclusive(self, end) ==
  IF end >= Len(self.f0) THEN Panic
  ELSE Returned(NonEmptySlice_from_slice_unchecked(SubSeq(self.f0, 1, end + 1)))

----------------------------------------------------------------------------
\* NonEmptyVec<T>(pub(crate) Vec<T>)

NonEmptyVec(v) == [f0 |-> v]

\* NonEmptyVec::new: vec![item] allocates exactly one slot.
NonEmptyVec_new(item) == NonEmptyVec(MkVec(<<item>>, 1))

\* with_capacity taking the stated capacity as it is, 0 included.
Mutant_with_capacity_as_stated(item, capacity) ==
  {NonEmptyVec(MkVec(<<item>>, capacity))}

\* NonEmptyVec::with_capacity
NonEmptyVec_with_capacity(item, capacity) ==
  {NonEmptyVec(w) : w \in UNION {VecPush(v, item) : v \in VecWithCapacity(capacity)}}

\* NonEmptyVec::with_exact_capacity, capacity a NonZeroUsize
NonEmptyVec_with_exact_capacity(item, capacity) ==
  NonEmptyVec_with_capacity(item, capacity)

\* NonEmptyVec::from_elem, n a NonZeroUsize
NonEmptyVec_from_elem(elem, n) ==
  {NonEmptyVec(MkVec([i \in 1..n |-> elem], v.cap)) : v \in VecWithCapacity(n)}

\* try_from_vec rebuilding the vector without its last element.
Mutant_try_from_vec_drops_last(v) ==
  IF Len(v.elems) = 0 THEN Err(v)
  ELSE Ok(NonEmptyVec(MkVec(Take(v.elems, Len(v.elems) - 1), v.cap)))

\* NonEmptyVec::try_from_vec, and TryFrom<Vec<T>> for NonEmptyVec
NonEmptyVec_try_from_vec(v) ==
  IF Len(v.elems) = 0 THEN Err(v) ELSE Ok(NonEmptyVec(v))

\* try_from_vec_ref_mut that copies the elements and leaves the argument.
Mutant_try_from_vec_ref_mut_copies(v) ==
  IF Len(v.elems) = 0 THEN [ret |-> None, vec |-> v]
  ELSE [ret |-> Some(NonEmptyVec(v)), vec |-> v]

\* NonEmptyVec::try_from_vec_ref_mut: [ret, vec as the call leaves it];
\* mem::swap with NonEmptyVec(Vec::new()).
NonEmptyVec_try_from_vec_ref_mut(v) ==
  IF Len(v.elems) = 0 THEN [ret |-> None, vec |-> v]
  ELSE [ret |-> Some(NonEmptyVec(v)), vec |-> VecNew]

\* NonEmptyVec::to_vec, and From<NonEmptyVec<T>> for Vec<T>
NonEmptyVec_to_vec(self) == self.f0

\* TryFrom<Box<[T]>> without its emptiness test.
Mutant_try_from_box_unchecked(s) == Ok(NonEmptyVec(BoxIntoVec(s)))

\* TryFrom<Box<[T]>> for NonEmptyVec
NonEmptyVec_try_from_box(s) ==
  IF Len(s) = 0 THEN Err(s) ELSE Ok(NonEmptyVec(BoxIntoVec(s)))

\* A Cow<[T]> is [owned, data]: Borrowed(&[T]) or Owned(Vec<T>); its Deref.
CowSlice(s) == IF s.owned THEN s.data.elems ELSE s.data

\* TryFrom<Cow<[T]>> for NonEmptyVec
NonEmptyVec_try_from_cow(s) ==
  IF Len(CowSlice(s)) = 0 THEN {Err(s)}
  ELSE {Ok(NonEmptyVec(v)) : v \in SliceToVec(CowSlice(s))}

\* TryFrom<&[T]> / TryFrom<&mut [T]> for NonEmptyVec
NonEmptyVec_try_from_slice(s) ==
  LET r == NonEmptySlice_try_from_slice(s)
  IN IF r.tag = "Err" THEN {r} ELSE {Ok(x) : x \in NonEmptySlice_to_vec(r.val)}

\* From<&str> for NonEmptyVec<u8>, the string given as its bytes
NonEmptyVec_from_str(bytes) == {NonEmptyVec(v) : v \in SliceToVec(bytes)}

\* NonEmptyVec::into_boxed_slice: a Box<NonEmptySlice<T>>
NonEmptyVec_into_boxed_slice(self) == [f0 |-> VecIntoBoxedSlice(self.f0)]

\* Deref / DerefMut for NonEmptyVec, and as_slice / as_slice_mut
NonEmptyVec_deref(self) == NonEmptySlice_from_slice_unchecked(self.f0.elems)

\* NonEmptyVec::push
NonEmptyVec_push(self, value) ==
  {Outcome(NonEmptyVec(v), Unit) : v \in VecPush(self.f0, value)}

\* NonEmptyVec::insert
NonEmptyVec_insert(self, index, element) ==
  {Outcome(NonEmptyVec(o.self), o.ret) : o \in VecInsert(self.f0, index, element)}

\* append_vec that copies the elements of `other` and leaves them there.
Mutant_append_vec_copies(self, other) ==
  {Outcome(NonEmptyVec(o.self), Returned(other)) : o \in VecAppend(self.f0, other)}

\* NonEmptyVec::append_vec: ret is `other` as the call leaves it.
NonEmptyVec_append_vec(self, other) ==
  {Outcome(NonEmptyVec(o.self), Returned(o.other)) : o \in VecAppend(self.f0, other)}

\* Extend for NonEmptyVec, and NonEmptyVec::extend_from_slice
NonEmptyVec_extend(self, items) ==
  {Outcome(NonEmptyVec(v), Unit) : v \in VecExtend(self.f0, items)}

\* NonEmptyVec::extend_from_within
NonEmptyVec_extend_from_within(self, src) ==
  {Outcome(NonEmptyVec(o.self), o.ret) : o \in VecExtendFromWithin(self.f0, src)}

\* Mutant of try_pop: the guard compares the length with 2.
Mutant_try_pop_off_by_one(self) ==
  {IF Len(self.f0.elems) = 2 THEN Outcome(self, None)
   ELSE LET o == VecPop(self.f0) IN Outcome(NonEmptyVec(o.self), o.ret)}

\* NonEmptyVec::try_pop
NonEmptyVec_try_pop(self) ==
  {IF h.abort THEN Outcome(self, Abort)
   ELSE IF h.val THEN Outcome(self, None)
   ELSE LET o == VecPop(self.f0) IN Outcome(NonEmptyVec(o.self), o.ret) :
     h \in NonEmptySlice_has_just_1_element(NonEmptyVec_deref(self))}

\* What Some(self.0.f(index)) comes to: the panic of f passes through.
SomeOrPanic(o) ==
  Outcome(NonEmptyVec(o.self), IF o.ret.tag = "Panic" THEN Panic ELSE Some(o.ret.val))

\* NonEmptyVec::swap_remove, index a NonZeroUsize
NonEmptyVec_swap_remove(self, index) ==
  LET o == VecSwapRemove(self.f0, index) IN {Outcome(NonEmptyVec(o.self), o.ret)}

\* Mutant of try_swap_remove: no guard, the removal is always made.
Mutant_try_swap_remove_unguarded(self, index) ==
  {SomeOrPanic(VecSwapRemove(self.f0, index))}

\* NonEmptyVec::try_swap_remove
NonEmptyVec_try_swap_remove(self, index) ==
  {IF h.abort THEN Outcome(self, Abort)
   ELSE IF h.val THEN Outcome(self, None)
   ELSE SomeOrPanic(VecSwapRemove(self.f0, index)) :
     h \in NonEmptySlice_has_just_1_element(NonEmptyVec_deref(self))}

\* try_remove answering None to an index beyond the end.
Mutant_try_remove_none_beyond_end(self, index) ==
  {IF h.abort THEN Outcome(self, Abort)
   ELSE IF h.val \/ index >= Len(self.f0.elems) THEN Outcome(self, None)
   ELSE SomeOrPanic(VecRemove(self.f0, index)) :
     h \in NonEmptySlice_has_just_1_element(NonEmptyVec_deref(self))}

\* NonEmptyVec::try_remove
NonEmptyVec_try_remove(self, index) ==
  {IF h.abort THEN Outcome(self, Abort)
   ELSE IF h.val THEN Outcome(self, None)
   ELSE SomeOrPanic(VecRemove(self.f0, index)) :
     h \in NonEmptySlice_has_just_1_element(NonEmptyVec_deref(self))}

\* NonEmptyVec::truncate, len a NonZeroUsize
NonEmptyVec_truncate(self, len) ==
  {Outcome(NonEmptyVec(VecTruncate(self.f0, len)), Unit)}

\* split_off splitting one index early.
Mutant_split_off_one_early(self, at) ==
  LET o == VecSplitOff(self.f0, at - 1) IN {Outcome(NonEmptyVec(o.self), o.ret)}

\* NonEmptyVec::split_off, at a NonZeroUsize
NonEmptyVec_split_off(self, at) ==
  LET o == VecSplitOff(self.f0, at) IN {Outcome(NonEmptyVec(o.self), o.ret)}

\* resize that only ever lengthens.
Mutant_resize_only_up(self, new_len, value) ==
  {Outcome(NonEmptyVec(v), Unit) :
     v \in VecResize(self.f0, Max(new_len, Len(self.f0.elems)), value)}

\* NonEmptyVec::resize / resize_with, new_len a NonZeroUsize
NonEmptyVec_resize(self, new_len, value) ==
  {Outcome(NonEmptyVec(v), Unit) : v \in VecResize(self.f0, new_len, value)}

\* dedup_by keeping the first element only.
Mutant_dedup_by_keeps_first_only(self, same_bucket) ==
  {Outcome(NonEmptyVec(MkVec(Take(self.f0.elems, 1), self.f0.cap)), Unit)}

\* NonEmptyVec::dedup_by, and dedup as dedup_by(|a, b| a == b)
NonEmptyVec_dedup_by(self, same_bucket) ==
  {Outcome(NonEmptyVec(VecDedupBy(self.f0, same_bucket)), Unit)}

\* NonEmptyVec::dedup_by_key
NonEmptyVec_dedup_by_key(self, key) ==
  {Outcome(NonEmptyVec(VecDedupByKey(self.f0, key)), Unit)}

\* NonEmptyVec::capacity: NonZeroUsize::new_unchecked(self.0.capacity())
NonEmptyVec_capacity(self) ==
  {IF c.abort THEN Abort ELSE Returned(c.get) : c \in NonZeroUsize_new_unchecked(self.f0.cap)}

\* NonEmptyVec::reserve / reserve_exact
NonEmptyVec_reserve(self, additional) ==
  {Outcome(NonEmptyVec(v), Unit) : v \in VecReserve(self.f0, additional)}

\* try_reserve that unwraps the result of the backing store.
Mutant_try_reserve_unwraps(self, additional) ==
  {Outcome(NonEmptyVec(o.self), IF o.ret.tag = "Err" THEN Panic ELSE o.ret) :
     o \in VecTryReserve(self.f0, additional)}

\* NonEmptyVec::try_reserve / try_reserve_exact
NonEmptyVec_try_reserve(self, additional) ==
  {Outcome(NonEmptyVec(o.self), o.ret) : o \in VecTryReserve(self.f0, additional)}

\* NonEmptyVec::shrink_to_fit
NonEmptyVec_shrink_to_fit(self) ==
  {Outcome(NonEmptyVec(v), Unit) : v \in VecShrinkToFit(self.f0)}

\* NonEmptyVec::shrink_to
NonEmptyVec_shrink_to(self, min_capacity) ==
  {Outcome(NonEmptyVec(v), Unit) : v \in VecShrinkTo(self.f0, min_capacity)}

\* self.len().get() - 1 in drain: the index of the last element.  At length
\* 0 (undefined behaviour in len) the build aborts, or the subtraction
\* panics where overflow is checked, or it wraps.
LastIndexOutcomes(self) ==
  UNION {IF l.abort THEN {Abort}
         ELSE IF l.get = 0 THEN {Panic, Some(UsizeMax)}
         ELSE {Some(l.get - 1)} : l \in NonEmptySlice_len(NonEmptyVec_deref(self))}

\* The guard of drain evaluated to a boolean.
DrainGuarded(self, range, refused) ==
  IF refused THEN Outcome(self, None)
  ELSE LET o == VecDrain(self.f0, range)
       IN Outcome(NonEmptyVec(o.self), IF o.ret.tag = "Panic" THEN Panic ELSE Some(o.ret))

\* NonEmptyVec::drain: None when the range contains index 0 and the last
\* index; `&&` does not evaluate len() when the range does not contain 0.
NonEmptyVec_drain(self, range) ==
  IF ~RangeContains(range, 0) THEN {DrainGuarded(self, range, FALSE)}
  ELSE {IF last.tag = "Some"
        THEN DrainGuarded(self, range, RangeContains(range, last.val))
        ELSE Outcome(self, last) : last \in LastIndexOutcomes(self)}

\* swap_remove_unchecked that closes the gap by shifting.
Mutant_swap_remove_unchecked_shifts(self, index) ==
  LET o == VecRemove(self.f0, index) IN {Outcome(NonEmptyVec(o.self), o.ret)}

\* NonEmptyVec::swap_remove_unchecked (unsafe)
NonEmptyVec_swap_remove_unchecked(self, index) ==
  LET o == VecSwapRemove(self.f0, index) IN {Outcome(NonEmptyVec(o.self), o.ret)}

\* NonEmptyVec::remove_unchecked (unsafe)
NonEmptyVec_remove_unchecked(self, index) ==
  LET o == VecRemove(self.f0, index) IN {Outcome(NonEmptyVec(o.self), o.ret)}

\* NonEmptyVec::drain_unchecked (unsafe)
NonEmptyVec_drain_unchecked(self, range) ==
  LET o == VecDrain(self.f0, range)
  IN {Outcome(NonEmptyVec(o.self), IF o.ret.tag = "Panic" THEN Panic ELSE Returned(o.ret))}

\* NonEmptyVec::splice, the returned Splice dropped: ret is what it removed.
NonEmptyVec_splice(self, range, replace_with) ==
  {Outcome(NonEmptyVec(o.self), o.ret) : o \in VecSplice(self.f0, range, replace_with)}

\* NonEmptyVec::spare_capacity_mut: a NonEmptySlice<MaybeUninit<T>> over the
\* capacity - len slots behind the elements.
Uninit == "uninit"
NonEmptyVec_spare_capacity_mut(self) ==
  NonEmptySlice_from_slice_unchecked(
    [i \in 1..(self.f0.cap - Len(self.f0.elems)) |-> Uninit])

\* NonEmptyVec::leak
NonEmptyVec_leak(self) == NonEmptySlice_from_slice_unchecked(self.f0.elems)

----------------------------------------------------------------------------
\* The state machine of one NonEmptyVec<T> under its safe public operations.

Elems(nev) == nev.f0.elems
NonZeroIdx == Idx \ {0}

\* Between two calls: pre, op and ret describe no call.
Idle == [name |-> "idle", args |-> <<>>]

\* The caller may make a call: the last one has been taken note of, no Drain
\* borrows the vector and the process has not been aborted.
Ready == op = Idle /\ drainh = NoDrain /\ ret.tag # "Abort"

\* One call: an outcome of the method becomes the new state.
Call(name, args, outcomes) ==
  /\ Ready
  /\ \E o \in outcomes : vec' = o.self /\ ret' = o.ret
  /\ pre' = vec
  /\ op' = [name |-> name, args |-> args]
  /\ UNCHANGED <<drainh, scVars, convVars, smallVars>>

\* One call that only reads: the view it returns is in ret.
View(name, args, ref) ==
  /\ Ready
  /\ ret' = ref
  /\ pre' = vec
  /\ op' = [name |-> name, args |-> args]
  /\ UNCHANGED <<vec, drainh, scVars, convVars, smallVars>>

\* The other specifications' variables, at rest.
VecAtRest == vec = Unit /\ pre = Unit /\ op = Idle /\ ret = Unit /\ drainh = NoDrain
ScAtRest == sv = Unit /\ sx = Unit /\ pushed = <<>> /\ popped = <<>>
ConvAtRest == origin = Unit /\ cur = Unit /\ trail = <<>>
SmallAtRest ==
  /\ small = Unit /\ smallPre = Unit /\ smallOp = Idle /\ smallRet = Unit
  /\ smallDrain = NoDrain /\ cloned = Unit

Init ==
  /\ ScAtRest /\ ConvAtRest /\ SmallAtRest
  /\ vec \in {NonEmptyVec_new(x) : x \in Elem}
        \cup UNION {NonEmptyVec_with_capacity(x, c) : x \in Elem, c \in 0..MaxCap}
        \cup UNION {NonEmptyVec_from_elem(x, n) : x \in Elem, n \in 1..MaxLen}
  /\ pre = vec
  /\ op = Idle
  /\ ret = Unit
  /\ drainh = NoDrain

Push ==
  /\ Ready
  /\ \E x \in Elem :
       /\ Len(Elems(vec)) < MaxLen
       /\ Call("push", <<x>>, NonEmptyVec_push(vec, x))

Insert ==
  /\ Ready
  /\ \E i \in Idx, x \in Elem :
       /\ Len(Elems(vec)) < MaxLen
       /\ Call("insert", <<i, x>>, NonEmptyVec_insert(vec, i, x))

AppendVec ==
  /\ Ready
  /\ \E items \in ArgSeqs, c \in 0..MaxCap :
       /\ Len(items) <= c
       /\ Len(Elems(vec)) + Len(items) <= MaxLen
       /\ Call("append_vec", <<MkVec(items, c)>>, NonEmptyVec_append_vec(vec, MkVec(items, c)))

Extend ==
  /\ Ready
  /\ \E items \in ArgSeqs :
       /\ Len(Elems(vec)) + Len(items) <= MaxLen
       /\ Call("extend", <<items>>, NonEmptyVec_extend(vec, items))

ExtendFromSlice ==
  /\ Ready
  /\ \E items \in ArgSeqs :
       /\ Len(Elems(vec)) + Len(items) <= MaxLen
       /\ Call("extend_from_slice", <<items>>, NonEmptyVec_extend(vec, items))

ExtendFromWithin ==
  /\ Ready
  /\ \E r \in Ranges :
       /\ \A o \in NonEmptyVec_extend_from_within(vec, r) : Len(Elems(o.self)) <= MaxLen
       /\ Call("extend_from_within", <<r>>, NonEmptyVec_extend_from_within(vec, r))

TryPop == Call("try_pop", <<>>, NonEmptyVec_try_pop(vec))

TryRemove ==
  /\ Ready
  /\ \E i \in Idx : Call("try_remove", <<i>>, NonEmptyVec_try_remove(vec, i))

TrySwapRemove ==
  /\ Ready
  /\ \E i \in Idx : Call("try_swap_remove", <<i>>, NonEmptyVec_try_swap_remove(vec, i))

SwapRemove ==
  /\ Ready
  /\ \E i \in NonZeroIdx : Call("swap_remove", <<i>>, NonEmptyVec_swap_remove(vec, i))

Truncate ==
  /\ Ready
  /\ \E n \in NonZeroIdx : Call("truncate", <<n>>, NonEmptyVec_truncate(vec, n))

SplitOff ==
  /\ Ready
  /\ \E at \in NonZeroIdx : Call("split_off", <<at>>, NonEmptyVec_split_off(vec, at))

Resize ==
  /\ Ready
  /\ \E n \in NonZeroIdx, x \in Elem :
       Call("resize", <<n, x>>, NonEmptyVec_resize(vec, n, x))

ResizeWith ==
  /\ Ready
  /\ \E n \in NonZeroIdx, x \in Elem :
       Call("resize_with", <<n, x>>, NonEmptyVec_resize(vec, n, x))

Dedup == Call("dedup", <<>>, NonEmptyVec_dedup_by(vec, "eq"))

DedupBy ==
  /\ Ready
  /\ \E f \in SameBuckets : Call("dedup_by", <<f>>, NonEmptyVec_dedup_by(vec, f))

DedupByKey ==
  /\ Ready
  /\ \E k \in Keys : Call("dedup_by_key", <<k>>, NonEmptyVec_dedup_by_key(vec, k))

Reserve ==
  /\ Ready
  /\ \E additional \in 0..MaxCap :
       /\ Len(Elems(vec)) + additional <= MaxCap
       /\ Call("reserve", <<additional>>, NonEmptyVec_reserve(vec, additional))

TryReserve ==
  /\ Ready
  /\ \E additional \in 0..MaxCap :
       /\ Len(Elems(vec)) + additional <= MaxCap
       /\ Call("try_reserve", <<additional>>, NonEmptyVec_try_reserve(vec, additional))

TryReserveExact ==
  /\ Ready
  /\ \E additional \in 0..MaxCap :
       /\ Len(Elems(vec)) + additional <= MaxCap
       /\ Call("try_reserve_exact", <<additional>>,
               NonEmptyVec_try_reserve(vec, additional))

ShrinkToFit == Call("shrink_to_fit", <<>>, NonEmptyVec_shrink_to_fit(vec))

ShrinkTo ==
  /\ Ready
  /\ \E m \in 0..MaxCap : Call("shrink_to", <<m>>, NonEmptyVec_shrink_to(vec, m))

Splice ==
  /\ Ready
  /\ \E r \in Ranges, items \in ArgSeqs :
       /\ Len(Elems(vec)) + Len(items) <= MaxLen
       /\ Call("splice", <<r, items>>, NonEmptyVec_splice(vec, r, items))

\* drain(range): on Some(drain) the Drain borrows the vector until it is
\* dropped or forgotten.
Drain ==
  /\ Ready
  /\ \E r \in Ranges :
       /\ \E o \in NonEmptyVec_drain(vec, r) :
            /\ vec' = o.self
            /\ ret' = o.ret
            /\ drainh' = IF o.ret.tag = "Some" THEN o.ret.val ELSE NoDrain
       /\ pre' = vec
       /\ op' = [name |-> "drain", args |-> <<r>>]
       /\ UNCHANGED <<scVars, convVars, smallVars>>

\* Iterator::next on the outstanding Drain.
DrainNextStep ==
  /\ drainh # NoDrain
  /\ LET o == DrainNext(drainh) IN drainh' = o.self /\ ret' = o.ret
  /\ op' = [name |-> "drain_next", args |-> op.args]
  /\ UNCHANGED <<vec, pre, scVars, convVars, smallVars>>

\* The Drain goes out of scope: ret is what it had yielded.
DrainDropStep ==
  /\ drainh # NoDrain
  /\ vec' = NonEmptyVec(DrainDrop(vec.f0, drainh))
  /\ ret' = Returned(drainh.yielded)
  /\ drainh' = NoDrain
  /\ op' = [name |-> "drain_drop", args |-> op.args]
  /\ UNCHANGED <<pre, scVars, convVars, smallVars>>

\* drain_unchecked(range) in an unsafe block: the Drain borrows the vector
\* until it is dropped or forgotten.
DrainUnchecked ==
  /\ Ready
  /\ \E r \in Ranges :
       /\ \E o \in NonEmptyVec_drain_unchecked(vec, r) :
            /\ vec' = o.self
            /\ ret' = o.ret
            /\ drainh' = IF o.ret.tag = "Returned" THEN o.ret.val ELSE NoDrain
       /\ pre' = vec
       /\ op' = [name |-> "drain_unchecked", args |-> <<r>>]
       /\ UNCHANGED <<scVars, convVars, smallVars>>

\* remove_unchecked(index) in an unsafe block
RemoveUnchecked ==
  /\ Ready
  /\ \E i \in Idx : Call("remove_unchecked", <<i>>, NonEmptyVec_remove_unchecked(vec, i))

\* swap_remove_unchecked(index) in an unsafe block
SwapRemoveUnchecked ==
  /\ Ready
  /\ \E i \in Idx :
       Call("swap_remove_unchecked", <<i>>, NonEmptyVec_swap_remove_unchecked(vec, i))

\* std::mem::forget(drain): the handle is abandoned, its Drop never runs.
DrainForget ==
  /\ drainh # NoDrain
  /\ ret' = Unit
  /\ drainh' = NoDrain
  /\ op' = [name |-> "drain_forget", args |-> op.args]
  /\ UNCHANGED <<vec, pre, scVars, convVars, smallVars>>

Deref == View("deref", <<>>, Returned(NonEmptyVec_deref(vec)))

SpareCapacityMut ==
  View("spare_capacity_mut", <<>>, Returned(NonEmptyVec_spare_capacity_mut(vec)))

Leak == View("leak", <<>>, Returned(NonEmptyVec_leak(vec)))

Capacity ==
  /\ Ready
  /\ \E r \in NonEmptyVec_capacity(vec) : View("capacity", <<>>, r)

\* vec.has_just_1_element(), through Deref
HasJust1Element ==
  /\ Ready
  /\ \E h \in NonEmptySlice_has_just_1_element(NonEmptyVec_deref(vec)) :
       View("has_just_1_element", <<>>, IF h.abort THEN Abort ELSE Returned(h.val))

\* vec.first() and vec.first_mut(), through Deref
First ==
  /\ Ready
  /\ \E r \in NonEmptySlice_first(NonEmptyVec_deref(vec)) : View("first", <<>>, r)

\* vec.last() and vec.last_mut(), through Deref
Last ==
  /\ Ready
  /\ \E r \in NonEmptySlice_last(NonEmptyVec_deref(vec)) : View("last", <<>>, r)

\* vec.repeat(n), through Deref
Repeat ==
  /\ Ready
  /\ \E n \in NonZeroIdx :
       \E r \in NonEmptySlice_repeat(NonEmptyVec_deref(vec), n) :
         View("repeat", <<n>>, Returned(r))

\* &vec[..] and &mut vec[..], through Deref
IndexRangeFull ==
  View("index_range_full", <<>>, NonEmptySlice_index_range_full(NonEmptyVec_deref(vec)))

\* &vec[..=end] and &mut vec[..=end], through Deref
IndexRangeToInclusive ==
  /\ Ready
  /\ \E end \in Idx :
       View("index_range_to_inclusive", <<end>>,
            NonEmptySlice_index_range_to_inclusive(NonEmptyVec_deref(vec), end))

\* The caller is done with the result of the last call; the next call is
\* made on the vector as it is now.
Return ==
  /\ op # Idle /\ drainh = NoDrain /\ ret.tag # "Abort"
  /\ pre' = vec
  /\ op' = Idle
  /\ ret' = Unit
  /\ UNCHANGED <<vec, drainh, scVars, convVars, smallVars>>

Next ==
  \/ Push \/ Insert \/ AppendVec \/ Extend \/ ExtendFromSlice \/ ExtendFromWithin
  \/ TryPop \/ TryRemove \/ TrySwapRemove \/ SwapRemove
  \/ Truncate \/ SplitOff \/ Resize \/ ResizeWith
  \/ Dedup \/ DedupBy \/ DedupByKey
  \/ Reserve \/ TryReserve \/ TryReserveExact \/ ShrinkToFit \/ ShrinkTo
  \/ Splice \/ Drain \/ DrainNextStep \/ DrainDropStep \/ DrainForget
  \/ Deref \/ SpareCapacityMut \/ Leak \/ IndexRangeFull \/ IndexRangeToInclusive
  \/ First \/ Last \/ Repeat \/ Capacity \/ HasJust1Element
  \/ Return

Spec == Init /\ [][Next]_vars

----------------------------------------------------------------------------
\* Properties of Spec.

\* The range contains every index of v.
SpansAll(v, r) == \A i \in 0..(Len(Elems(v)) - 1) : RangeContains(r, i)

\* The elements of v at the indices the range does not contain.
RECURSIVE KeepOutside(_, _, _)
KeepOutside(elems, r, i) ==
  IF elems = <<>> THEN <<>>
  ELSE (IF RangeContains(r, i) THEN <<>> ELSE <<Head(elems)>>)
         \o KeepOutside(Tail(elems), r, i + 1)

\* The removals that has_just_1_element guards.
GuardedRemovals == {"try_pop", "try_remove", "try_swap_remove"}

\* C36: has_just_1_element() returns true if and only if the length is
\* exactly 1, and try_pop, try_remove and try_swap_remove each return None
\* exactly when has_just_1_element() is true of the vector they are called on.
C36_HasJust1ElementIsTheSoleGuard ==
  /\ op.name = "has_just_1_element" => ret = Returned(Len(Elems(pre)) = 1)
  /\ op.name \in GuardedRemovals =>
       (ret = None <=>
          \E h \in NonEmptySlice_has_just_1_element(NonEmptyVec_deref(pre)) :
            ~h.abort /\ h.val)

\* C1: the vector holds at least one element after every safe operation
\* (whenever no Drain borrows it).
C1_LenAtLeastOneAfterEveryStep ==
  drainh = NoDrain => Len(Elems(vec)) >= 1

\* C5: on a vector of length exactly 1, try_pop, try_remove(i) and
\* try_swap_remove(i) return None for every index i, without a panic, and
\* leave the element sequence unchanged.
C5_CheckedRemovalsRefuseAtLengthOne ==
  (op.name \in {"try_pop", "try_remove", "try_swap_remove"} /\ Len(Elems(pre)) = 1)
    => (ret.tag = "None" /\ Elems(vec) = Elems(pre))

C5_Witness ==
  /\ op.name = "try_swap_remove" /\ op.args = <<2>>
  /\ Len(Elems(pre)) = 1 /\ ret.tag = "None" /\ Elems(vec) = Elems(pre)

\* C7: drain(range) returns None and changes nothing when the range spans
\* the entire vector; when the range is a proper sub-range, consuming the
\* Drain fully and dropping it removes exactly the elements at the indices
\* of the range, keeps the others in order, and leaves at least one element.
C7_DrainFullRangeRefusedSubRangeRemoved ==
  /\ (op.name = "drain" /\ SpansAll(pre, op.args[1]))
       => (ret.tag = "None" /\ drainh = NoDrain /\ Elems(vec) = Elems(pre))
  /\ (/\ op.name = "drain_drop"
      /\ ~SpansAll(pre, op.args[1])
      /\ RangeValid(op.args[1], Len(Elems(pre)))
      /\ Len(ret.val) = RangeEnd(op.args[1], Len(Elems(pre))) - RangeStart(op.args[1]))
       => (/\ Elems(vec) = KeepOutside(Elems(pre), op.args[1], 0)
           /\ Len(Elems(vec)) >= 1)

\* C11: on every vector reached by safe operations, first() returns the
\* element at index 0 and last() the element at index len - 1, with no
\* absence or failure outcome; at length 1 both are the same element.
C11_FirstAndLastReturnTheEnds ==
  /\ op.name = "first"
       => (ret.tag = "Returned" /\ Len(Elems(pre)) >= 1 /\ ret.val = Elems(pre)[1])
  /\ op.name = "last"
       => (/\ ret.tag = "Returned" /\ Len(Elems(pre)) >= 1
           /\ ret.val = Elems(pre)[Len(Elems(pre))])

\* C12: indexing a slice of length L by ..=i gives, for every i < L, a view
\* of exactly its first i + 1 elements, and panics for i >= L; indexing by ..
\* gives the slice itself, with all L elements.
C12_PrefixAndWholeRangeIndexing ==
  /\ op.name = "index_range_to_inclusive" =>
       IF op.args[1] < Len(Elems(pre))
       THEN /\ ret.tag = "Returned"
            /\ Len(ret.val.f0) = op.args[1] + 1
            /\ Len(ret.val.f0) >= 1
            /\ \A k \in 1..(op.args[1] + 1) : ret.val.f0[k] = Elems(pre)[k]
       ELSE ret.tag = "Panic"
  /\ op.name = "index_range_full" =>
       (ret.tag = "Returned" /\ ret.val.f0 = Elems(pre))

C12_Witness ==
  /\ op.name = "index_range_to_inclusive" /\ op.args = <<1>>
  /\ Len(Elems(pre)) = 3 /\ Elems(pre)[1] # Elems(pre)[2]
  /\ ret.tag = "Returned" /\ ret.val.f0 = <<Elems(pre)[1], Elems(pre)[2]>>

\* C13: repeat(n), n >= 1, on a slice of length L returns a vector of
\* length n * L whose element at position j is the source's element at
\* position j mod L, and leaves the source unchanged.
C13_RepeatConcatenatesCopies ==
  op.name = "repeat" =>
    /\ ret.tag = "Returned"
    /\ Len(ret.val.f0.elems) = op.args[1] * Len(Elems(pre))
    /\ \A j \in 0..(Len(ret.val.f0.elems) - 1) :
         ret.val.f0.elems[j + 1] = Elems(pre)[(j % Len(Elems(pre))) + 1]
    /\ vec = pre

C13_Witness ==
  /\ op.name = "repeat" /\ op.args = <<2>>
  /\ Len(Elems(pre)) = 2 /\ Elems(pre)[1] # Elems(pre)[2]
  /\ ret.tag = "Returned" /\ ret.val.f0.elems = Elems(pre) \o Elems(pre)

\* C16: split_off(at) with 1 <= at <= len leaves the receiver holding
\* exactly its first at elements (length >= 1) and returns an ordinary vector
\* with the remaining elements in order, so that receiver followed by result
\* is the original sequence; with at > len it fails and the receiver is
\* unchanged.
C16_SplitOffKeepsPrefixReturnsTail ==
  op.name = "split_off" =>
    IF op.args[1] <= Len(Elems(pre))
    THEN /\ ret.tag = "Returned"
         /\ Elems(vec) = SubSeq(Elems(pre), 1, op.args[1])
         /\ Len(Elems(vec)) >= 1
         /\ ret.val.elems = SubSeq(Elems(pre), op.args[1] + 1, Len(Elems(pre)))
         /\ Elems(vec) \o ret.val.elems = Elems(pre)
    ELSE ret.tag = "Panic" /\ vec = pre

C16_Witness ==
  /\ op.name = "split_off" /\ op.args = <<1>>
  /\ Len(Elems(pre)) = 3 /\ Elems(pre)[2] # Elems(pre)[3]
  /\ Elems(vec) = <<Elems(pre)[1]>>
  /\ ret.tag = "Returned" /\ ret.val.elems = <<Elems(pre)[2], Elems(pre)[3]>>

\* C17: for every non-zero argument, swap_remove(index) either fails as out
\* of bounds leaving the vector unchanged (always so at length 1) or removes
\* one element and leaves length >= 1, and truncate(len) leaves the first
\* min(old length, len) >= 1 elements.
C17_GuardedByProofNeverEmpties ==
  /\ op.name = "swap_remove" =>
       /\ ret.tag \in {"Panic", "Returned"}
       /\ ret.tag = "Panic" => vec = pre
       /\ Len(Elems(pre)) = 1 => ret.tag = "Panic"
       /\ ret.tag = "Returned" =>
            (Len(Elems(vec)) = Len(Elems(pre)) - 1 /\ Len(Elems(vec)) >= 1)
  /\ op.name = "truncate" =>
       /\ Elems(vec) = SubSeq(Elems(pre), 1, Min(Len(Elems(pre)), op.args[1]))
       /\ Len(Elems(vec)) >= 1

\* The elements of s that differ from their immediate predecessor, from
\* index i on.
RECURSIVE WithoutRepeats(_, _)
WithoutRepeats(s, i) ==
  IF i > Len(s) THEN <<>>
  ELSE (IF i = 1 \/ s[i] # s[i - 1] THEN <<s[i]>> ELSE <<>>) \o WithoutRepeats(s, i + 1)

NoAdjacentEqual(s) == \A i \in 1..(Len(s) - 1) : s[i] # s[i + 1]

\* C18: dedup on a non-empty collection removes only the elements equal to
\* their immediate predecessor: the result has no two adjacent equal
\* elements, keeps the first element, has length >= 1, and a dedup of a
\* sequence without adjacent equal elements changes nothing (idempotence).
C18_DedupRemovesAdjacentDuplicatesOnly ==
  (op.name = "dedup" /\ Len(Elems(pre)) >= 1) =>
    /\ Elems(vec) = WithoutRepeats(Elems(pre), 1)
    /\ NoAdjacentEqual(Elems(vec))
    /\ Len(Elems(vec)) >= 1
    /\ Elems(vec)[1] = Elems(pre)[1]
    /\ NoAdjacentEqual(Elems(pre)) => Elems(vec) = Elems(pre)

C18_Witness ==
  /\ op.name = "dedup" /\ Len(Elems(pre)) = 3
  /\ Elems(pre)[1] = Elems(pre)[2] /\ Elems(pre)[2] # Elems(pre)[3]
  /\ Elems(vec) = <<Elems(pre)[1], Elems(pre)[3]>>

\* C8: from the moment drain returns Some(drain), the length the backing
\* store records is at least 1: while the Drain is being consumed, after it
\* is dropped, and after it is forgotten.
C8_LenAtLeastOneOnceDrainReturned ==
  (\/ (op.name = "drain" /\ ret.tag = "Some")
   \/ op.name \in {"drain_next", "drain_drop", "drain_forget"})
    => Len(Elems(vec)) >= 1

\* C9: every NonEmptySlice reference safe code obtains from the vector views
\* at least one element.
C9_EveryViewHoldsAnElement ==
  (/\ op.name \in {"deref", "spare_capacity_mut", "leak",
                   "index_range_full", "index_range_to_inclusive"}
   /\ ret.tag = "Returned")
    => Len(ret.val.f0) >= 1

\* C30: the additive mutators never shorten the vector and keep its elements
\* in order: push adds one element at the end, insert(i, e) with i <= len
\* puts e at index i before the elements from i on, extend and
\* extend_from_slice append the items in order, and append_vec(other) appends
\* the elements of other in order and leaves other empty.
C30_AdditiveMutatorsAppendInOrder ==
  LET old == Elems(pre)
      new == Elems(vec)
  IN /\ op.name \in {"push", "insert", "extend", "extend_from_slice", "append_vec"}
          => Len(new) >= Len(old)
     /\ op.name = "push" => new = Append(old, op.args[1]) /\ ret = Unit
     /\ (op.name = "insert" /\ op.args[1] <= Len(old))
          => /\ new = Take(old, op.args[1]) \o <<op.args[2]>> \o Drop(old, op.args[1])
             /\ ret = Unit
     /\ op.name \in {"extend", "extend_from_slice"} => new = old \o op.args[1] /\ ret = Unit
     /\ op.name = "append_vec"
          => /\ new = old \o op.args[1].elems
             /\ Len(new) = Len(old) + Len(op.args[1].elems)
             /\ ret.tag = "Returned" /\ ret.val.elems = <<>>

\* Two different elements were appended from a Vec, which is now empty.
C30_Witness ==
  /\ op.name = "append_vec" /\ Len(op.args[1].elems) = 2
  /\ op.args[1].elems[1] # op.args[1].elems[2]
  /\ Elems(vec) = Elems(pre) \o op.args[1].elems
  /\ ret.val.elems = <<>>

\* C32: on every vector reached by safe operations, capacity() returns a
\* value that is at least the length and is not zero, right after
\* shrink_to_fit, shrink_to(0), truncate and the checked removals too.
C32_CapacityCoversTheLength ==
  op.name = "capacity" =>
    /\ ret.tag = "Returned"
    /\ ret.val >= Len(Elems(vec))
    /\ ret.val >= 1

\* C26: splice(range, replace_with) on a vector that holds an element leaves
\* it with length >= 1 once the Splice has been dropped, for every range and
\* every replacement, the whole range with an empty replacement included.
C26_SpliceLeavesAnElement ==
  (op.name = "splice" /\ Len(Elems(pre)) >= 1) => Len(Elems(vec)) >= 1

\* C27: drain(range) returns None exactly when the range contains index 0
\* and index len - 1, a range that ends beyond the length included; an empty
\* range at a position of the vector, 0..0 and len..len included, returns
\* Some and removes nothing.
C27_DrainRefusesExactlyTheSpanningRanges ==
  op.name = "drain" =>
    LET r == op.args[1]
        len == Len(Elems(pre))
    IN /\ ret = None <=> (RangeContains(r, 0) /\ RangeContains(r, len - 1))
       /\ (RangeStart(r) = RangeEnd(r, len) /\ RangeEnd(r, len) <= len)
            => /\ ret.tag = "Some"
               /\ ret.val.iter = <<>>
               /\ Elems(vec) \o ret.val.tail = Elems(pre)

\* The elements of v at the indices the range contains, in index order.
RECURSIVE KeepInside(_, _, _)
KeepInside(elems, r, i) ==
  IF elems = <<>> THEN <<>>
  ELSE (IF RangeContains(r, i) THEN <<Head(elems)>> ELSE <<>>)
         \o KeepInside(Tail(elems), r, i + 1)

\* C28: the Drain that drain(range) returns for a proper sub-range yields the
\* elements at the indices of the range, each once and in index order, and
\* then ends: next returns None after exactly |range| items, and only then.
C28_DrainYieldsTheRangeOnceInOrder ==
  (/\ op.name \in {"drain", "drain_next"} /\ drainh # NoDrain
   /\ ~SpansAll(pre, op.args[1]))
    => LET want == KeepInside(Elems(pre), op.args[1], 0)
           n == Len(drainh.yielded)
       IN /\ drainh.yielded \o drainh.iter = want
          /\ n <= Len(want)
          /\ op.name = "drain_next" =>
               IF ret = None THEN n = Len(want) /\ drainh.iter = <<>>
               ELSE n >= 1 /\ ret = Some(want[n])

\* Two elements were yielded and the Drain has ended.
C28_Witness ==
  /\ op.name = "drain_next" /\ ret = None /\ drainh # NoDrain
  /\ ~SpansAll(pre, op.args[1])
  /\ Len(drainh.yielded) = 2 /\ drainh.yielded[1] # drainh.yielded[2]
  /\ drainh.yielded = KeepInside(Elems(pre), op.args[1], 0)

----------------------------------------------------------------------------
\* UncheckedSpec: the checked removals of a NonEmptyVec next to the unsafe
\* primitives they are built on.

UncheckedNext ==
  \/ Push
  \/ TryRemove \/ TrySwapRemove \/ Drain
  \/ RemoveUnchecked \/ SwapRemoveUnchecked \/ DrainUnchecked
  \/ DrainNextStep \/ DrainDropStep
  \/ Return

UncheckedSpec == Init /\ [][UncheckedNext]_vars

\* What Some(..) around the result of an unchecked primitive comes to.
Guarded(o) == Outcome(o.self, IF o.ret.tag = "Panic" THEN Panic ELSE Some(o.ret.val))

\* C23: at length >= 2, try_remove(i) and try_swap_remove(i) return the
\* element and leave the sequence that remove_unchecked(i) and
\* swap_remove_unchecked(i) do, and for a range that does not span the whole
\* vector drain(range) does what drain_unchecked(range) does; the unchecked
\* forms remove even when that leaves length 0.
C23_CheckedIsUncheckedPlusGuard ==
  LET now == Outcome(vec, ret)
      i == op.args[1]
  IN /\ (op.name = "try_remove" /\ Len(Elems(pre)) >= 2)
          => now \in {Guarded(o) : o \in NonEmptyVec_remove_unchecked(pre, i)}
     /\ (op.name = "remove_unchecked" /\ Len(Elems(pre)) >= 2)
          => Guarded(now) \in NonEmptyVec_try_remove(pre, i)
     /\ (op.name = "try_swap_remove" /\ Len(Elems(pre)) >= 2)
          => now \in {Guarded(o) : o \in NonEmptyVec_swap_remove_unchecked(pre, i)}
     /\ (op.name = "swap_remove_unchecked" /\ Len(Elems(pre)) >= 2)
          => Guarded(now) \in NonEmptyVec_try_swap_remove(pre, i)
     /\ (op.name = "drain" /\ ~SpansAll(pre, i))
          => now \in {Guarded(o) : o \in NonEmptyVec_drain_unchecked(pre, i)}
     /\ (op.name = "drain_unchecked" /\ ~SpansAll(pre, i))
          => Guarded(now) \in NonEmptyVec_drain(pre, i)
     /\ (op.name = "remove_unchecked" /\ i < Len(Elems(pre)))
          => /\ ret = Returned(Elems(pre)[i + 1])
             /\ Elems(vec) = Take(Elems(pre), i) \o Drop(Elems(pre), i + 1)
     /\ (op.name = "swap_remove_unchecked" /\ i < Len(Elems(pre)))
          => /\ ret = Returned(Elems(pre)[i + 1])
             /\ Len(Elems(vec)) = Len(Elems(pre)) - 1
     /\ (op.name = "drain_unchecked" /\ RangeValid(i, Len(Elems(pre))))
          => /\ ret.tag = "Returned"
             /\ ret.val.iter = SubSeq(Elems(pre), RangeStart(i) + 1,
                                      RangeEnd(i, Len(Elems(pre))))
             /\ Elems(vec) = Take(Elems(pre), RangeStart(i))

\* swap_remove_unchecked(0) on three elements of which the last two differ:
\* the last element has taken the place of the first.
C23_Witness ==
  /\ op.name = "swap_remove_unchecked" /\ op.args = <<0>>
  /\ Len(Elems(pre)) = 3 /\ Elems(pre)[2] # Elems(pre)[3]
  /\ Elems(vec) = <<Elems(pre)[3], Elems(pre)[2]>>

----------------------------------------------------------------------------
\* ScenarioSpec: NonEmptyVec::new(x), some pushes, then try_pop calls until
\* one more than the pushes.

ScInit ==
  /\ VecAtRest /\ ConvAtRest /\ SmallAtRest
  /\ sx \in Elem
  /\ sv = NonEmptyVec_new(sx)
  /\ pushed = <<>>
  /\ popped = <<>>

ScPush ==
  /\ popped = <<>>
  /\ Len(Elems(sv)) < MaxLen
  /\ \E value \in Elem :
       /\ \E o \in NonEmptyVec_push(sv, value) : sv' = o.self
       /\ pushed' = Append(pushed, value)
  /\ UNCHANGED <<sx, popped, vecVars, convVars, smallVars>>

ScTryPop ==
  /\ Len(popped) <= Len(pushed)
  /\ \E o \in NonEmptyVec_try_pop(sv) :
       /\ sv' = o.self
       /\ popped' = Append(popped, o.ret)
  /\ UNCHANGED <<sx, pushed, vecVars, convVars, smallVars>>

ScNext == ScPush \/ ScTryPop

ScenarioSpec == ScInit /\ [][ScNext]_vars

\* The number of try_pop calls so far that returned Some.
NumSome == Cardinality({k \in 1..Len(popped) : popped[k].tag = "Some"})

\* C6: try_pop on a vector of length n >= 2 returns Some(last element) and
\* leaves the first n-1 elements in order; so after new(x) and k pushes, the
\* first k try_pop calls return the pushed values in reverse push order, the
\* one after them returns None, and the vector is [x] again.
C6_TryPopReturnsPushesInReverse ==
  /\ \A k \in 1..Len(popped) :
       IF k <= Len(pushed)
       THEN popped[k] = Some(pushed[Len(pushed) - k + 1])
       ELSE popped[k] = None
  /\ Elems(sv) = <<sx>> \o Take(pushed, Len(pushed) - NumSome)
  /\ Len(popped) = Len(pushed) + 1 => Elems(sv) = <<sx>>

C6_Witness ==
  /\ Len(pushed) = 2 /\ pushed[1] # pushed[2]
  /\ Len(popped) = 3
  /\ popped[1] = Some(pushed[2]) /\ popped[2] = Some(pushed[1]) /\ popped[3] = None
  /\ Elems(sv) = <<sx>>

----------------------------------------------------------------------------
\* NonEmptySmallVec<A>(pub(crate) SmallVec<A>), A = [T; InlineSize].  A
\* SmallVec<A> is [elems, cap]; it has spilled when cap exceeds InlineSize.

NonEmptySmallVec(sm) == [f0 |-> sm]

\* NonEmptySmallVec::try_from_smallvec, and TryFrom<SmallVec<A>>
NonEmptySmallVec_try_from_smallvec(smallvec) ==
  IF Len(smallvec.elems) = 0 THEN Err(smallvec) ELSE Ok(NonEmptySmallVec(smallvec))

\* NonEmptySmallVec::try_from_smallvec_ref_mut: [ret, vec as the call leaves
\* it]; mem::swap with NonEmptySmallVec(SmallVec::new()), which is empty and
\* inline.
NonEmptySmallVec_try_from_smallvec_ref_mut(smallvec) ==
  IF Len(smallvec.elems) = 0 THEN [ret |-> None, vec |-> smallvec]
  ELSE [ret |-> Some(NonEmptySmallVec(smallvec)), vec |-> MkVec(<<>>, InlineSize)]

\* The backing store, smallvec::SmallVec<A>, as the wrapper calls it.  Where
\* SmallVec does what Vec does, the operator of Vec stands for both.

\* SmallVec::spilled
SmallSpilled(v) == v.cap > InlineSize

\* SmallVec::new(): inline, the capacity is the size of the array.
SmallNew == MkVec(<<>>, InlineSize)

\* SmallVec::with_capacity(n): new(), then reserve_exact(n).
SmallWithCapacity(n) == MkVec(<<>>, Max(InlineSize, n))

\* smallvec![item]: pushed inline when one item fits, else from_vec(vec![item]).
SmallFromItem(item) == MkVec(<<item>>, Max(InlineSize, 1))

\* SmallVec::from_elem(elem, n): inline when n fits, else vec![elem; n].into().
SmallFromElem(elem, n) == MkVec([i \in 1..n |-> elem], Max(InlineSize, n))

\* SmallVec::from_buf(buf), buf an array of the length N of A: all N elements
\* are taken, inline.
SmallFromBuf(buf) == MkVec(buf, Len(buf))

\* SmallVec::from_buf_and_len(buf, len): assert!(len <= A::size()).
SmallFromBufAndLen(buf, len) ==
  IF len > Len(buf) THEN Panic ELSE Returned(MkVec(Take(buf, len), Len(buf)))

\* SmallVec::insert: room for one more element is made before the index is
\* checked; panics if index > len.
SmallInsert(v, index, element) ==
  {IF index > Len(v.elems) THEN Outcome(MkVec(v.elems, c), Panic)
   ELSE Outcome(MkVec(Take(v.elems, index) \o <<element>> \o Drop(v.elems, index), c), Unit) :
     c \in GrowCaps(v, Len(v.elems) + 1)}

\* SmallVec::insert_many: extend when index = len; assert!(index <= old_len)
\* before any room is made.
SmallInsertMany(v, index, items) ==
  IF index > Len(v.elems) THEN {Outcome(v, Panic)}
  ELSE {Outcome(MkVec(Take(v.elems, index) \o items \o Drop(v.elems, index), c), Unit) :
          c \in GrowCaps(v, Len(v.elems) + Len(items))}

\* SmallVec::insert_from_slice: reserve(slice.len()), then assert!(index <= len).
SmallInsertFromSlice(v, index, slice) ==
  {IF index > Len(v.elems) THEN Outcome(MkVec(v.elems, c), Panic)
   ELSE Outcome(MkVec(Take(v.elems, index) \o slice \o Drop(v.elems, index), c), Unit) :
     c \in GrowCaps(v, Len(v.elems) + Len(slice))}

\* SmallVec::shrink_to_fit: nothing when inline; back inline when the
\* elements fit the array; else the heap buffer is cut to the length.
SmallShrinkToFit(v) ==
  IF ~SmallSpilled(v) THEN v
  ELSE IF InlineSize >= Len(v.elems) THEN MkVec(v.elems, InlineSize)
  ELSE MkVec(v.elems, Len(v.elems))

\* smallvec::CollectionAllocErr
CollectionAllocErr == [tag |-> "CollectionAllocErr"]

\* SmallVec::try_grow(new_cap): assert!(new_cap >= len); back inline when
\* new_cap fits the array; else the heap buffer gets capacity new_cap, unless
\* the allocation fails.
SmallTryGrow(v, new_cap) ==
  IF new_cap < Len(v.elems) THEN {Outcome(v, Panic)}
  ELSE IF new_cap <= InlineSize THEN {Outcome(MkVec(v.elems, InlineSize), Ok(Unit))}
  ELSE IF new_cap = v.cap THEN {Outcome(v, Ok(Unit))}
  ELSE {Outcome(MkVec(v.elems, new_cap), Ok(Unit)), Outcome(v, Err(CollectionAllocErr))}

\* usize::checked_next_power_of_two
RECURSIVE NextPowerOfTwoFrom(_, _)
NextPowerOfTwoFrom(p, n) == IF p >= n THEN p ELSE NextPowerOfTwoFrom(2 * p, n)
NextPowerOfTwo(n) == NextPowerOfTwoFrom(1, n)

\* SmallVec::try_reserve: nothing when the room is there, else
\* try_grow((len + additional).next_power_of_two()).
SmallTryReserve(v, additional) ==
  IF v.cap - Len(v.elems) >= additional THEN {Outcome(v, Ok(Unit))}
  ELSE SmallTryGrow(v, NextPowerOfTwo(Len(v.elems) + additional))

\* SmallVec::try_reserve_exact: nothing when the room is there, else
\* try_grow(len + additional).
SmallTryReserveExact(v, additional) ==
  IF v.cap - Len(v.elems) >= additional THEN {Outcome(v, Ok(Unit))}
  ELSE SmallTryGrow(v, Len(v.elems) + additional)

\* SmallVec::grow(new_cap): infallible(self.try_grow(new_cap)), a failed
\* allocation ends the process.
SmallGrow(v, new_cap) ==
  {IF o.ret.tag = "Err" THEN Outcome(v, Abort)
   ELSE IF o.ret.tag = "Ok" THEN Outcome(o.self, Unit) ELSE o :
     o \in SmallTryGrow(v, new_cap)}

\* Clone for SmallVec: SmallVec::from(self.as_slice()), inline when the
\* elements fit the array.
SmallClone(v) ==
  {MkVec(v.elems, c) :
     c \in IF Len(v.elems) <= InlineSize THEN {InlineSize}
           ELSE Len(v.elems)..Max(Len(v.elems), MaxCap)}

\* SmallVec::clone_from(source): truncate to source.len(), clone_from_slice
\* over the common prefix, extend by the rest.
SmallCloneFrom(v, source) ==
  {MkVec(source.elems, c) : c \in GrowCaps(v, Len(source.elems))}

\* NonEmptySmallVec::new
NonEmptySmallVec_new(item) == NonEmptySmallVec(SmallFromItem(item))

\* NonEmptySmallVec::with_capacity
NonEmptySmallVec_with_capacity(item, capacity) ==
  {NonEmptySmallVec(w) : w \in VecPush(SmallWithCapacity(capacity), item)}

\* NonEmptySmallVec::from_elem, n a NonZeroUsize
NonEmptySmallVec_from_elem(elem, n) == NonEmptySmallVec(SmallFromElem(elem, n))

\* Deref / DerefMut for NonEmptySmallVec, and as_slice / as_slice_mut
NonEmptySmallVec_deref(self) == NonEmptySlice_from_slice_unchecked(self.f0.elems)

\* NonEmptySmallVec::push
NonEmptySmallVec_push(self, item) ==
  {Outcome(NonEmptySmallVec(v), Unit) : v \in VecPush(self.f0, item)}

\* NonEmptySmallVec::insert
NonEmptySmallVec_insert(self, index, element) ==
  {Outcome(NonEmptySmallVec(o.self), o.ret) : o \in SmallInsert(self.f0, index, element)}

\* NonEmptySmallVec::insert_many
NonEmptySmallVec_insert_many(self, index, iterable) ==
  {Outcome(NonEmptySmallVec(o.self), o.ret) : o \in SmallInsertMany(self.f0, index, iterable)}

\* NonEmptySmallVec::insert_from_slice
NonEmptySmallVec_insert_from_slice(self, index, slice) ==
  {Outcome(NonEmptySmallVec(o.self), o.ret) : o \in SmallInsertFromSlice(self.f0, index, slice)}

\* Extend for NonEmptySmallVec, and NonEmptySmallVec::extend_from_slice
NonEmptySmallVec_extend(self, iter) ==
  {Outcome(NonEmptySmallVec(v), Unit) : v \in VecExtend(self.f0, iter)}

\* NonEmptySmallVec::append_smallvec: ret is `other` as the call leaves it.
NonEmptySmallVec_append_smallvec(self, smallvec) ==
  {Outcome(NonEmptySmallVec(o.self), Returned(o.other)) : o \in VecAppend(self.f0, smallvec)}

\* pop bringing the elements back inline as soon as they fit.
Mutant_pop_moves_inline(self) ==
  {IF h.abort THEN Outcome(self, Abort)
   ELSE IF h.val THEN Outcome(self, None)
   ELSE LET o == VecPop(self.f0)
        IN Outcome(NonEmptySmallVec(SmallShrinkToFit(o.self)), o.ret) :
     h \in NonEmptySlice_has_just_1_element(NonEmptySmallVec_deref(self))}

\* NonEmptySmallVec::pop
NonEmptySmallVec_pop(self) ==
  {IF h.abort THEN Outcome(self, Abort)
   ELSE IF h.val THEN Outcome(self, None)
   ELSE LET o == VecPop(self.f0) IN Outcome(NonEmptySmallVec(o.self), o.ret) :
     h \in NonEmptySlice_has_just_1_element(NonEmptySmallVec_deref(self))}

\* NonEmptySmallVec::try_remove
NonEmptySmallVec_try_remove(self, index) ==
  {IF h.abort THEN Outcome(self, Abort)
   ELSE IF h.val THEN Outcome(self, None)
   ELSE SomeOrPanic(VecRemove(self.f0, index)) :
     h \in NonEmptySlice_has_just_1_element(NonEmptySmallVec_deref(self))}

\* NonEmptySmallVec::try_swap_remove
NonEmptySmallVec_try_swap_remove(self, index) ==
  {IF h.abort THEN Outcome(self, Abort)
   ELSE IF h.val THEN Outcome(self, None)
   ELSE SomeOrPanic(VecSwapRemove(self.f0, index)) :
     h \in NonEmptySlice_has_just_1_element(NonEmptySmallVec_deref(self))}

\* NonEmptySmallVec::swap_remove, index a NonZeroUsize
NonEmptySmallVec_swap_remove(self, index) ==
  LET o == VecSwapRemove(self.f0, index) IN {Outcome(NonEmptySmallVec(o.self), o.ret)}

\* NonEmptySmallVec::truncate, len a NonZeroUsize
NonEmptySmallVec_truncate(self, len) ==
  {Outcome(NonEmptySmallVec(VecTruncate(self.f0, len)), Unit)}

\* NonEmptySmallVec::resize / resize_with, the length a NonZeroUsize
NonEmptySmallVec_resize(self, len, value) ==
  {Outcome(NonEmptySmallVec(v), Unit) : v \in VecResize(self.f0, len, value)}

\* NonEmptySmallVec::dedup_by, and dedup
NonEmptySmallVec_dedup_by(self, same_bucket) ==
  {Outcome(NonEmptySmallVec(VecDedupBy(self.f0, same_bucket)), Unit)}

\* NonEmptySmallVec::dedup_by_key
NonEmptySmallVec_dedup_by_key(self, key) ==
  {Outcome(NonEmptySmallVec(VecDedupByKey(self.f0, key)), Unit)}

\* NonEmptySmallVec::capacity: NonZeroUsize::new_unchecked(self.0.capacity())
NonEmptySmallVec_capacity(self) ==
  {IF c.abort THEN Abort ELSE Returned(c.get) : c \in NonZeroUsize_new_unchecked(self.f0.cap)}

\* NonEmptySmallVec::reserve / reserve_exact
NonEmptySmallVec_reserve(self, additional) ==
  {Outcome(NonEmptySmallVec(v), Unit) : v \in VecReserve(self.f0, additional)}

\* NonEmptySmallVec::try_reserve
NonEmptySmallVec_try_reserve(self, additional) ==
  {Outcome(NonEmptySmallVec(o.self), o.ret) : o \in SmallTryReserve(self.f0, additional)}

\* NonEmptySmallVec::try_reserve_exact
NonEmptySmallVec_try_reserve_exact(self, additional) ==
  {Outcome(NonEmptySmallVec(o.self), o.ret) :
     o \in SmallTryReserveExact(self.f0, additional)}

\* NonEmptySmallVec::shrink_to_fit
NonEmptySmallVec_shrink_to_fit(self) ==
  {Outcome(NonEmptySmallVec(SmallShrinkToFit(self.f0)), Unit)}

\* NonEmptySmallVec::grow, new_cap a NonZeroUsize
NonEmptySmallVec_grow(self, new_cap) ==
  {Outcome(NonEmptySmallVec(o.self), o.ret) : o \in SmallGrow(self.f0, new_cap)}

\* try_grow cutting the elements down to a capacity below the length.
Mutant_try_grow_truncates(self, new_cap) ==
  {Outcome(NonEmptySmallVec(o.self), o.ret) :
     o \in SmallTryGrow(VecTruncate(self.f0, new_cap), new_cap)}

\* NonEmptySmallVec::try_grow, new_cap a NonZeroUsize
NonEmptySmallVec_try_grow(self, new_cap) ==
  {Outcome(NonEmptySmallVec(o.self), o.ret) : o \in SmallTryGrow(self.f0, new_cap)}

\* Clone for NonEmptySmallVec: clone
NonEmptySmallVec_clone(self) == {NonEmptySmallVec(v) : v \in SmallClone(self.f0)}

\* Clone for NonEmptySmallVec: clone_from
NonEmptySmallVec_clone_from(self, source) ==
  {Outcome(NonEmptySmallVec(v), Unit) : v \in SmallCloneFrom(self.f0, source.f0)}

\* PartialEq for [T]: the lengths agree and so does every pair of elements.
SliceEq(a, b) ==
  Len(a) = Len(b) /\ \A i \in 1..Len(a) : a[i] = b[i]

\* Ord for [T]: lexicographic over the common prefix, then by length.
RECURSIVE SliceCmp(_, _)
SliceCmp(a, b) ==
  IF a = <<>> /\ b = <<>> THEN "Equal"
  ELSE IF a = <<>> THEN "Less"
  ELSE IF b = <<>> THEN "Greater"
  ELSE IF Head(a) < Head(b) THEN "Less"
  ELSE IF Head(a) > Head(b) THEN "Greater"
  ELSE SliceCmp(Tail(a), Tail(b))

\* Hash for [T]: the length is written to the hasher, then every element;
\* the value is what the hasher was fed.
SliceHash(a) == <<Len(a)>> \o a

\* PartialEq by the storage as well as the elements.
Mutant_eq_by_storage(self, other) == self.f0 = other.f0

\* PartialEq for NonEmptySmallVec: self.0 == other.0, which SmallVec answers
\* on the slices.
NonEmptySmallVec_eq(self, other) == SliceEq(self.f0.elems, other.f0.elems)

\* PartialOrd for NonEmptySmallVec: self.0.partial_cmp(&other.0)
NonEmptySmallVec_partial_cmp(self, other) == Some(SliceCmp(self.f0.elems, other.f0.elems))

\* Ord for NonEmptySmallVec: self.0.cmp(&other.0)
NonEmptySmallVec_cmp(self, other) == SliceCmp(self.f0.elems, other.f0.elems)

\* Hash for NonEmptySmallVec: self.0.hash(state)
NonEmptySmallVec_hash(self) == SliceHash(self.f0.elems)

\* NonEmptySmallVec::drain: the guard of NonEmptyVec::drain, over
\* SmallVec::drain, which sets the length to the start of the range at once
\* and leaves the tail to the Drop of the Drain, as Vec::drain does.
NonEmptySmallVec_drain(self, range) ==
  IF ~RangeContains(range, 0) THEN {DrainGuarded(self, range, FALSE)}
  ELSE {IF last.tag = "Some"
        THEN DrainGuarded(self, range, RangeContains(range, last.val))
        ELSE Outcome(self, last) : last \in LastIndexOutcomes(self)}


\* A zero-length array given to a function that holds
\* const { assert!(N > 0) }: the program is rejected when it is built.
CompileError == [tag |-> "CompileError"]

\* TryFrom<Vec<T>> for [T; N]: the elements when there are exactly N of them,
\* else the Vec as it was.
VecTryIntoArray(v, N) == IF Len(v.elems) # N THEN Err(v) ELSE Ok(v.elems)

\* TryFrom<NonEmptyVec<T>> for [T; N]
NonEmptyVec_try_into_array(s, N) ==
  IF ~(N # 0) THEN CompileError
  ELSE IF Len(s.f0.elems) = 0 THEN Err(s)
  ELSE LET r == VecTryIntoArray(s.f0, N)
       IN IF r.tag = "Ok" THEN Ok(r.val) ELSE Err(NonEmptyVec(r.val))

\* NonEmptySmallVec::from_buf
NonEmptySmallVec_from_buf(buf) ==
  IF ~(Len(buf) > 0) THEN CompileError
  ELSE Returned(NonEmptySmallVec(SmallFromBuf(buf)))

\* NonEmptySmallVec::from_buf_and_len, len a NonZeroUsize
NonEmptySmallVec_from_buf_and_len(buf, len) ==
  IF ~(Len(buf) > 0) THEN CompileError
  ELSE LET r == SmallFromBufAndLen(buf, len)
       IN IF r.tag = "Panic" THEN Panic ELSE Returned(NonEmptySmallVec(r.val))

\* From<[T; N]> for NonEmptySmallVec<[T; N]>
NonEmptySmallVec_from_array(buf) == Returned(NonEmptySmallVec(SmallFromBuf(buf)))

----------------------------------------------------------------------------
\* SmallSpec: the state machine of one NonEmptySmallVec<[T; InlineSize]>
\* under its safe public operations.

\* The arrays [T; InlineSize]
Bufs == {b \in AllSeqs : Len(b) = InlineSize}

SmallReady == smallOp = Idle /\ smallDrain = NoDrain /\ smallRet.tag # "Abort"

\* One call: an outcome of the method becomes the new state.
SmallCall(name, args, outcomes) ==
  /\ SmallReady
  /\ \E o \in outcomes : small' = o.self /\ smallRet' = o.ret
  /\ smallPre' = small
  /\ smallOp' = [name |-> name, args |-> args]
  /\ UNCHANGED <<smallDrain, cloned, vecVars, scVars, convVars>>

SmallInit ==
  /\ VecAtRest /\ ScAtRest /\ ConvAtRest
  /\ small \in {NonEmptySmallVec_new(x) : x \in Elem}
        \cup UNION {NonEmptySmallVec_with_capacity(x, c) : x \in Elem, c \in 0..MaxCap}
        \cup {NonEmptySmallVec_from_elem(x, n) : x \in Elem, n \in 1..MaxLen}
        \cup {NonEmptySmallVec_from_buf(b).val : b \in Bufs}
        \cup {NonEmptySmallVec_from_buf_and_len(b, n).val : b \in Bufs, n \in 1..InlineSize}
        \cup {NonEmptySmallVec_from_array(b).val : b \in Bufs}
  /\ smallPre = small
  /\ smallOp = Idle
  /\ smallRet = Unit
  /\ smallDrain = NoDrain
  /\ cloned \in NonEmptySmallVec_clone(small)

SmallVecPush ==
  /\ SmallReady
  /\ \E x \in Elem :
       /\ Len(Elems(small)) < MaxLen
       /\ SmallCall("push", <<x>>, NonEmptySmallVec_push(small, x))

SmallVecInsert ==
  /\ SmallReady
  /\ \E i \in Idx, x \in Elem :
       /\ Len(Elems(small)) < MaxLen
       /\ SmallCall("insert", <<i, x>>, NonEmptySmallVec_insert(small, i, x))

SmallVecInsertMany ==
  /\ SmallReady
  /\ \E i \in Idx, items \in ArgSeqs :
       /\ Len(Elems(small)) + Len(items) <= MaxLen
       /\ SmallCall("insert_many", <<i, items>>,
                    NonEmptySmallVec_insert_many(small, i, items))

SmallVecInsertFromSlice ==
  /\ SmallReady
  /\ \E i \in Idx, items \in ArgSeqs :
       /\ Len(Elems(small)) + Len(items) <= MaxLen
       /\ SmallCall("insert_from_slice", <<i, items>>,
                    NonEmptySmallVec_insert_from_slice(small, i, items))

SmallVecExtend ==
  /\ SmallReady
  /\ \E items \in ArgSeqs :
       /\ Len(Elems(small)) + Len(items) <= MaxLen
       /\ SmallCall("extend", <<items>>, NonEmptySmallVec_extend(small, items))

SmallVecExtendFromSlice ==
  /\ SmallReady
  /\ \E items \in ArgSeqs :
       /\ Len(Elems(small)) + Len(items) <= MaxLen
       /\ SmallCall("extend_from_slice", <<items>>, NonEmptySmallVec_extend(small, items))

SmallVecAppendSmallvec ==
  /\ SmallReady
  /\ \E items \in ArgSeqs, c \in InlineSize..MaxCap :
       /\ Len(items) <= c
       /\ Len(Elems(small)) + Len(items) <= MaxLen
       /\ SmallCall("append_smallvec", <<MkVec(items, c)>>,
                    NonEmptySmallVec_append_smallvec(small, MkVec(items, c)))

SmallVecPop == SmallCall("pop", <<>>, NonEmptySmallVec_pop(small))

SmallVecTryRemove ==
  /\ SmallReady
  /\ \E i \in Idx : SmallCall("try_remove", <<i>>, NonEmptySmallVec_try_remove(small, i))

SmallVecTrySwapRemove ==
  /\ SmallReady
  /\ \E i \in Idx :
       SmallCall("try_swap_remove", <<i>>, NonEmptySmallVec_try_swap_remove(small, i))

SmallVecSwapRemove ==
  /\ SmallReady
  /\ \E i \in NonZeroIdx :
       SmallCall("swap_remove", <<i>>, NonEmptySmallVec_swap_remove(small, i))

SmallVecTruncate ==
  /\ SmallReady
  /\ \E n \in NonZeroIdx : SmallCall("truncate", <<n>>, NonEmptySmallVec_truncate(small, n))

SmallVecResize ==
  /\ SmallReady
  /\ \E n \in NonZeroIdx, x \in Elem :
       SmallCall("resize", <<n, x>>, NonEmptySmallVec_resize(small, n, x))

SmallVecResizeWith ==
  /\ SmallReady
  /\ \E n \in NonZeroIdx, x \in Elem :
       SmallCall("resize_with", <<n, x>>, NonEmptySmallVec_resize(small, n, x))

SmallVecDedup == SmallCall("dedup", <<>>, NonEmptySmallVec_dedup_by(small, "eq"))

SmallVecDedupBy ==
  /\ SmallReady
  /\ \E f \in SameBuckets :
       SmallCall("dedup_by", <<f>>, NonEmptySmallVec_dedup_by(small, f))

SmallVecDedupByKey ==
  /\ SmallReady
  /\ \E k \in Keys :
       SmallCall("dedup_by_key", <<k>>, NonEmptySmallVec_dedup_by_key(small, k))

\* reserve, reserve_exact, and try_reserve / try_reserve_exact where they succeed
SmallVecReserve ==
  /\ SmallReady
  /\ \E additional \in 0..MaxCap :
       /\ Len(Elems(small)) + additional <= MaxCap
       /\ SmallCall("reserve", <<additional>>, NonEmptySmallVec_reserve(small, additional))

SmallVecTryReserve ==
  /\ SmallReady
  /\ \E additional \in 0..MaxCap :
       /\ Len(Elems(small)) + additional <= MaxCap
       /\ SmallCall("try_reserve", <<additional>>,
                    NonEmptySmallVec_try_reserve(small, additional))

SmallVecTryReserveExact ==
  /\ SmallReady
  /\ \E additional \in 0..MaxCap :
       /\ Len(Elems(small)) + additional <= MaxCap
       /\ SmallCall("try_reserve_exact", <<additional>>,
                    NonEmptySmallVec_try_reserve_exact(small, additional))

SmallVecCapacity ==
  /\ SmallReady
  /\ \E r \in NonEmptySmallVec_capacity(small) :
       /\ smallRet' = r
       /\ smallPre' = small
       /\ smallOp' = [name |-> "capacity", args |-> <<>>]
       /\ UNCHANGED <<small, smallDrain, cloned, vecVars, scVars, convVars>>

SmallVecShrinkToFit ==
  SmallCall("shrink_to_fit", <<>>, NonEmptySmallVec_shrink_to_fit(small))

SmallVecGrow ==
  /\ SmallReady
  /\ \E new_cap \in 1..MaxCap :
       SmallCall("grow", <<new_cap>>, NonEmptySmallVec_grow(small, new_cap))

SmallVecTryGrow ==
  /\ SmallReady
  /\ \E new_cap \in 1..MaxCap :
       SmallCall("try_grow", <<new_cap>>, NonEmptySmallVec_try_grow(small, new_cap))

\* cloned = small.clone()
SmallVecClone ==
  /\ SmallReady
  /\ cloned' \in NonEmptySmallVec_clone(small)
  /\ smallPre' = small
  /\ smallOp' = [name |-> "clone", args |-> <<>>]
  /\ smallRet' = Unit
  /\ UNCHANGED <<small, smallDrain, vecVars, scVars, convVars>>

\* small.clone_from(&cloned)
SmallVecCloneFrom ==
  SmallCall("clone_from", <<cloned>>, NonEmptySmallVec_clone_from(small, cloned))

SmallVecDrain ==
  /\ SmallReady
  /\ \E r \in Ranges :
       /\ \E o \in NonEmptySmallVec_drain(small, r) :
            /\ small' = o.self
            /\ smallRet' = o.ret
            /\ smallDrain' = IF o.ret.tag = "Some" THEN o.ret.val ELSE NoDrain
       /\ smallPre' = small
       /\ smallOp' = [name |-> "drain", args |-> <<r>>]
       /\ UNCHANGED <<cloned, vecVars, scVars, convVars>>

\* Iterator::next on the outstanding Drain.
SmallVecDrainNext ==
  /\ smallDrain # NoDrain
  /\ LET o == DrainNext(smallDrain) IN smallDrain' = o.self /\ smallRet' = o.ret
  /\ smallOp' = [name |-> "drain_next", args |-> smallOp.args]
  /\ UNCHANGED <<small, smallPre, cloned, vecVars, scVars, convVars>>

\* The Drain goes out of scope: smallRet is what it had yielded.
SmallVecDrainDrop ==
  /\ smallDrain # NoDrain
  /\ small' = NonEmptySmallVec(DrainDrop(small.f0, smallDrain))
  /\ smallRet' = Returned(smallDrain.yielded)
  /\ smallDrain' = NoDrain
  /\ smallOp' = [name |-> "drain_drop", args |-> smallOp.args]
  /\ UNCHANGED <<smallPre, cloned, vecVars, scVars, convVars>>

\* std::mem::forget(drain): the handle is abandoned, its Drop never runs.
SmallVecDrainForget ==
  /\ smallDrain # NoDrain
  /\ smallRet' = Unit
  /\ smallDrain' = NoDrain
  /\ smallOp' = [name |-> "drain_forget", args |-> smallOp.args]
  /\ UNCHANGED <<small, smallPre, cloned, vecVars, scVars, convVars>>

\* small == cloned, small.partial_cmp(&cloned), small.cmp(&cloned) and the
\* hashes of both.
SmallVecCompare ==
  /\ SmallReady
  /\ smallRet' = Returned([eq |-> NonEmptySmallVec_eq(small, cloned),
                           partial_cmp |-> NonEmptySmallVec_partial_cmp(small, cloned),
                           cmp |-> NonEmptySmallVec_cmp(small, cloned),
                           hash |-> NonEmptySmallVec_hash(small),
                           hashOther |-> NonEmptySmallVec_hash(cloned)])
  /\ smallPre' = small
  /\ smallOp' = [name |-> "compare", args |-> <<cloned>>]
  /\ UNCHANGED <<small, smallDrain, cloned, vecVars, scVars, convVars>>

\* The caller is done with the result of the last call.
SmallReturn ==
  /\ smallOp # Idle /\ smallDrain = NoDrain /\ smallRet.tag # "Abort"
  /\ smallPre' = small
  /\ smallOp' = Idle
  /\ smallRet' = Unit
  /\ UNCHANGED <<small, smallDrain, cloned, vecVars, scVars, convVars>>

SmallNext ==
  \/ SmallVecPush \/ SmallVecInsert \/ SmallVecInsertMany \/ SmallVecInsertFromSlice
  \/ SmallVecExtend \/ SmallVecExtendFromSlice \/ SmallVecAppendSmallvec
  \/ SmallVecPop \/ SmallVecTryRemove \/ SmallVecTrySwapRemove \/ SmallVecSwapRemove
  \/ SmallVecTruncate \/ SmallVecResize \/ SmallVecResizeWith
  \/ SmallVecDedup \/ SmallVecDedupBy \/ SmallVecDedupByKey
  \/ SmallVecReserve \/ SmallVecTryReserve \/ SmallVecTryReserveExact
  \/ SmallVecShrinkToFit \/ SmallVecGrow \/ SmallVecTryGrow
  \/ SmallVecClone \/ SmallVecCloneFrom \/ SmallVecCompare \/ SmallVecCapacity
  \/ SmallVecDrain \/ SmallVecDrainNext \/ SmallVecDrainDrop \/ SmallVecDrainForget
  \/ SmallReturn

SmallSpec == SmallInit /\ [][SmallNext]_vars

----------------------------------------------------------------------------
\* RemovalSpec: a NonEmptyVec or a NonEmptySmallVec, fresh from a
\* constructor, under push and the checked removals.

RemovalInit == Init \/ SmallInit

RemovalNext ==
  \/ /\ vec # Unit
     /\ Push \/ TryPop \/ TryRemove \/ TrySwapRemove \/ Return
  \/ /\ small # Unit
     /\ \/ SmallVecPush \/ SmallVecPop \/ SmallVecTryRemove \/ SmallVecTrySwapRemove
        \/ SmallReturn

RemovalSpec == RemovalInit /\ [][RemovalNext]_vars

\* What the claim says of one call of try_remove or try_swap_remove that took
\* `before` to `after` and returned r.
RemovedRight(call, before, after, r) ==
  (call.name \in {"try_remove", "try_swap_remove"} /\ Len(Elems(before)) >= 2) =>
    LET old == Elems(before)
        new == Elems(after)
        n == Len(old)
        i == call.args[1]
    IN IF i >= n THEN r = Panic /\ after = before
       ELSE /\ r = Some(old[i + 1])
            /\ Len(new) = n - 1
            /\ IF call.name = "try_remove"
               THEN new = Take(old, i) \o Drop(old, i + 1)
               ELSE \A j \in 1..(n - 1) : new[j] = IF j = i + 1 THEN old[n] ELSE old[j]

\* C29: at length n >= 2 and i < n, try_remove(i) returns Some(element i) and
\* leaves the others in order, try_swap_remove(i) returns Some(element i) and
\* leaves the former last element at position i, all others in place; for
\* i >= n both panic and leave the collection as it was.  NonEmptyVec and
\* NonEmptySmallVec alike.
C29_CheckedRemovalsTakeElementI ==
  /\ RemovedRight(op, pre, vec, ret)
  /\ RemovedRight(smallOp, smallPre, small, smallRet)

\* try_swap_remove(0) on three elements of which the last two differ.
C29_Witness ==
  /\ op.name = "try_swap_remove" /\ op.args = <<0>>
  /\ Len(Elems(pre)) = 3 /\ Elems(pre)[2] # Elems(pre)[3]
  /\ ret = Some(Elems(pre)[1])
  /\ Elems(vec) = <<Elems(pre)[3], Elems(pre)[2]>>

\* C34: NonEmptySmallVec::pop at length 1 returns None and leaves the
\* collection as it was; at length n >= 2 it returns Some(last element) and
\* leaves the first n - 1 elements; inline or spilled, and the spilled flag
\* stays as it was.
C34_SmallPopRefusesTheLastElement ==
  smallOp.name = "pop" =>
    LET old == Elems(smallPre)
        n == Len(old)
    IN /\ n = 1 => smallRet = None /\ small = smallPre
       /\ n >= 2 => /\ smallRet = Some(old[n])
                    /\ Elems(small) = Take(old, n - 1)
       /\ n >= 1 => SmallSpilled(small.f0) = SmallSpilled(smallPre.f0)

\* A spilled NonEmptySmallVec of three elements gave its last one and stayed
\* spilled, though what is left would fit inline.
C34_Witness ==
  /\ smallOp.name = "pop" /\ Len(Elems(smallPre)) = 3
  /\ smallRet = Some(Elems(smallPre)[3])
  /\ Len(Elems(small)) <= InlineSize /\ SmallSpilled(small.f0)

----------------------------------------------------------------------------
\* ResizeSpec: a NonEmptyVec or a NonEmptySmallVec, fresh from a constructor,
\* under push, resize and resize_with.

ResizeNext ==
  \/ /\ vec # Unit
     /\ Push \/ Resize \/ ResizeWith \/ Return
  \/ /\ small # Unit
     /\ SmallVecPush \/ SmallVecResize \/ SmallVecResizeWith \/ SmallReturn

ResizeSpec == RemovalInit /\ [][ResizeNext]_vars

\* One call of resize or resize_with took `before` to `after`: the length is
\* the one asked for, the first elements are the old ones and the rest is
\* the filler.
Resized(call, before, after) ==
  LET old == Elems(before)
      new == Elems(after)
      new_len == call.args[1]
  IN /\ Len(new) = new_len
     /\ \A j \in 1..new_len : new[j] = IF j <= Len(old) THEN old[j] ELSE call.args[2]

\* C31 as stated: resize and resize_with set the length to exactly new_len,
\* shortening to the first new_len elements or filling the new positions,
\* and never decrease the length.
C31_ResizeNeverShortens ==
  /\ op.name \in {"resize", "resize_with"}
       => Resized(op, pre, vec) /\ Len(Elems(vec)) >= Len(Elems(pre))
  /\ smallOp.name \in {"resize", "resize_with"}
       => Resized(smallOp, smallPre, small) /\ Len(Elems(small)) >= Len(Elems(smallPre))

\* C31, amended: resize and resize_with set the length to exactly new_len,
\* shortening to the first new_len elements or filling the new positions;
\* the length decreases exactly when new_len is below it, and never below 1.
C31_ResizeSetsTheLengthAskedFor ==
  /\ op.name \in {"resize", "resize_with"}
       => /\ Resized(op, pre, vec) /\ ret = Unit
          /\ Len(Elems(vec)) >= 1
          /\ Len(Elems(vec)) < Len(Elems(pre)) <=> op.args[1] < Len(Elems(pre))
  /\ smallOp.name \in {"resize", "resize_with"}
       => /\ Resized(smallOp, smallPre, small) /\ smallRet = Unit
          /\ Len(Elems(small)) >= 1
          /\ Len(Elems(small)) < Len(Elems(smallPre)) <=> smallOp.args[1] < Len(Elems(smallPre))

\* resize(1, value) shortened a vector of three elements to its first.
C31_Witness ==
  /\ op.name = "resize" /\ op.args[1] = 1
  /\ Len(Elems(pre)) = 3 /\ Elems(vec) = <<Elems(pre)[1]>>

----------------------------------------------------------------------------
\* ReserveSpec: a NonEmptyVec or a NonEmptySmallVec, fresh from a
\* constructor, under the operations that only make or give back room.

ReserveInit == Init \/ SmallInit

ReserveNext ==
  \/ /\ vec # Unit
     /\ Reserve \/ TryReserve \/ TryReserveExact \/ ShrinkToFit \/ ShrinkTo \/ Return
  \/ /\ small # Unit
     /\ \/ SmallVecReserve \/ SmallVecTryReserve \/ SmallVecTryReserveExact
        \/ SmallVecShrinkToFit \/ SmallVecGrow \/ SmallVecTryGrow \/ SmallReturn

ReserveSpec == ReserveInit /\ [][ReserveNext]_vars

\* The operations that only make or give back room.
CapacityOnly ==
  {"reserve", "try_reserve", "try_reserve_exact", "shrink_to_fit", "shrink_to",
   "grow", "try_grow"}

\* C33: reserve, reserve_exact, shrink_to_fit, shrink_to, and grow / try_grow
\* of NonEmptySmallVec leave the elements and the length as they were; of a
\* NonEmptySmallVec nothing but the capacity, and with it the spilled flag,
\* changes; grow and try_grow to a capacity below the length fail and leave
\* the collection as it was.
C33_CapacityOperationsKeepTheElements ==
  /\ op.name \in CapacityOnly => Elems(vec) = Elems(pre)
  /\ smallOp.name \in CapacityOnly
       => /\ Elems(small) = Elems(smallPre)
          /\ small = NonEmptySmallVec(MkVec(Elems(smallPre), small.f0.cap))
  /\ (smallOp.name \in {"grow", "try_grow"} /\ smallOp.args[1] < Len(Elems(smallPre)))
       => smallRet = Panic /\ small = smallPre

\* try_grow(1) on a spilled NonEmptySmallVec of three elements panicked.
C33_Witness ==
  /\ smallOp.name = "try_grow" /\ smallOp.args[1] = 1
  /\ Len(Elems(smallPre)) = 3 /\ SmallSpilled(smallPre.f0)
  /\ smallRet = Panic /\ small = smallPre

\* C22: try_reserve and try_reserve_exact of NonEmptyVec and NonEmptySmallVec
\* return the backing store's Result as it is: on Err the value is the
\* store's own error and the collection is as it was; on Ok the elements are
\* as they were and the room asked for is there.
C22_TryReserveHandsOnTheStoresResult ==
  /\ op.name \in {"try_reserve", "try_reserve_exact"} =>
       /\ ret.tag \in {"Ok", "Err"}
       /\ ret.tag = "Err" => ret.val = TryReserveError /\ vec = pre
       /\ ret.tag = "Ok" =>
            /\ ret.val = Unit /\ Elems(vec) = Elems(pre)
            /\ vec.f0.cap >= Len(Elems(pre)) + op.args[1]
            /\ vec.f0.cap >= pre.f0.cap
  /\ smallOp.name \in {"try_reserve", "try_reserve_exact"} =>
       /\ smallRet.tag \in {"Ok", "Err"}
       /\ smallRet.tag = "Err" => smallRet.val = CollectionAllocErr /\ small = smallPre
       /\ smallRet.tag = "Ok" =>
            /\ smallRet.val = Unit /\ Elems(small) = Elems(smallPre)
            /\ small.f0.cap >= Len(Elems(smallPre)) + smallOp.args[1]
            /\ small.f0.cap >= smallPre.f0.cap

\* The allocation failed in try_reserve of a NonEmptyVec.
C22_Witness ==
  /\ op.name = "try_reserve" /\ ret = Err(TryReserveError)
  /\ Len(Elems(vec)) >= 1 /\ vec = pre

----------------------------------------------------------------------------
\* CompareSpec: a NonEmptySmallVec and a clone of it taken earlier, compared
\* while the first is pushed to, popped from, spilled and brought back inline.

CompareNext ==
  \/ SmallVecPush \/ SmallVecPop
  \/ SmallVecGrow \/ SmallVecShrinkToFit
  \/ SmallVecClone \/ SmallVecCompare
  \/ SmallReturn

CompareSpec == SmallInit /\ [][CompareNext]_vars

\* C21: two NonEmptySmallVec values with the same element sequence compare
\* equal, order as Equal and hash alike, whatever the capacity and the spill
\* state of each; two with different element sequences compare unequal.
C21_EqOrdHashByElementsOnly ==
  smallOp.name = "compare" =>
    IF Elems(small) = Elems(cloned)
    THEN /\ smallRet.val.eq
         /\ smallRet.val.partial_cmp = Some("Equal")
         /\ smallRet.val.cmp = "Equal"
         /\ smallRet.val.hash = smallRet.val.hashOther
    ELSE ~smallRet.val.eq /\ smallRet.val.cmp # "Equal"

\* Equal elements, one value inline and the other spilled.
C21_Witness ==
  /\ smallOp.name = "compare"
  /\ Elems(small) = Elems(cloned)
  /\ SmallSpilled(small.f0) # SmallSpilled(cloned.f0)
  /\ smallRet.val.eq

\* C19: the NonEmptySmallVec holds at least one element after every safe
\* operation (whenever no Drain borrows it), inline or spilled.
C19_SmallLenAtLeastOneAfterEveryStep ==
  smallDrain = NoDrain => Len(Elems(small)) >= 1

----------------------------------------------------------------------------
\* ConvSpec: the constructors and conversions, applied in chains to every
\* ordinary collection within the bounds.  A value is [ty, val].

Typed(ty, val) == [ty |-> ty, val |-> val]

\* The ordinary collections of each type within the bounds; the capacity of
\* a Vec is at least its length, that of a SmallVec also at least InlineSize.
VecsWithin == {MkVec(e, c) : e \in AllSeqs, c \in 0..MaxCap}
OriginTypes ==
  {"Vec", "Box<[T]>", "Cow", "&[T]", "&mut [T]", "&str", "SmallVec", "(T, usize)",
   "[T; N]"}
OriginsOf(ty) ==
  CASE ty = "Vec" -> {v \in VecsWithin : Len(v.elems) <= v.cap}
    [] ty = "SmallVec" -> {v \in VecsWithin : Len(v.elems) <= v.cap /\ InlineSize <= v.cap}
    [] ty = "Cow" -> {[owned |-> FALSE, data |-> e] : e \in AllSeqs}
                       \cup {[owned |-> TRUE, data |-> v] :
                               v \in {w \in VecsWithin : Len(w.elems) <= w.cap}}
    [] ty = "(T, usize)" -> [item : Elem, capacity : 0..MaxCap]
    [] OTHER -> AllSeqs

\* The value a conversion is applied to: cur, or what its Ok / Some holds.
Held == IF cur.ty \in {"Result", "Option"} /\ cur.val.tag \in {"Ok", "Some"}
        THEN cur.val.val ELSE cur

\* The elements of an ordinary collection.
ElemsOf(t) ==
  CASE t.ty \in {"Vec", "SmallVec"} -> t.val.elems
    [] t.ty = "Cow" -> CowSlice(t.val)
    [] OTHER -> t.val

ConvInit ==
  /\ VecAtRest /\ ScAtRest /\ SmallAtRest
  /\ \E ty \in OriginTypes : \E val \in OriginsOf(ty) : origin = Typed(ty, val)
  /\ cur = origin
  /\ trail = <<>>

\* One conversion: one of its results becomes cur.
Convert(name, results) ==
  /\ cur' \in results
  /\ trail' = Append(trail, name)
  /\ UNCHANGED <<origin, vecVars, scVars, smallVars>>

MapResult(r, okTy, errTy) ==
  Typed("Result", IF r.tag = "Ok" THEN Ok(Typed(okTy, r.val)) ELSE Err(Typed(errTy, r.val)))

\* NonEmptyVec::new(item)
ConvNew ==
  /\ Len(trail) < MaxTrail /\ Held.ty = "(T, usize)"
  /\ Convert("new", {Typed("NonEmptyVec", NonEmptyVec_new(Held.val.item))})

\* NonEmptyVec::with_capacity(item, capacity)
ConvWithCapacity ==
  /\ Len(trail) < MaxTrail /\ Held.ty = "(T, usize)"
  /\ Convert("with_capacity",
             {Typed("NonEmptyVec", x) :
                x \in NonEmptyVec_with_capacity(Held.val.item, Held.val.capacity)})

\* NonEmptyVec::with_exact_capacity(item, capacity), capacity a NonZeroUsize
ConvWithExactCapacity ==
  /\ Len(trail) < MaxTrail /\ Held.ty = "(T, usize)" /\ Held.val.capacity # 0
  /\ Convert("with_exact_capacity",
             {Typed("NonEmptyVec", x) :
                x \in NonEmptyVec_with_exact_capacity(Held.val.item, Held.val.capacity)})

\* NonEmptyVec::from_elem(elem, n), n a NonZeroUsize
ConvFromElem ==
  /\ Len(trail) < MaxTrail /\ Held.ty = "(T, usize)"
  /\ Held.val.capacity \in 1..MaxLen
  /\ Convert("from_elem",
             {Typed("NonEmptyVec", x) :
                x \in NonEmptyVec_from_elem(Held.val.item, Held.val.capacity)})

ConvTryFromVec ==
  /\ Len(trail) < MaxTrail /\ Held.ty = "Vec"
  /\ Convert("try_from_vec",
             {MapResult(NonEmptyVec_try_from_vec(Held.val), "NonEmptyVec", "Vec")})

ConvTryFromVecRefMut ==
  /\ Len(trail) < MaxTrail /\ Held.ty = "Vec"
  /\ LET r == NonEmptyVec_try_from_vec_ref_mut(Held.val)
     IN Convert("try_from_vec_ref_mut",
                {Typed("Option+Vec",
                       [ret |-> IF r.ret.tag = "Some"
                                THEN Some(Typed("NonEmptyVec", r.ret.val)) ELSE None,
                        vec |-> Typed("Vec", r.vec)])})

ConvTryFromBox ==
  /\ Len(trail) < MaxTrail /\ Held.ty = "Box<[T]>"
  /\ Convert("try_from_box",
             {MapResult(NonEmptyVec_try_from_box(Held.val), "NonEmptyVec", "Box<[T]>")})

ConvTryFromCow ==
  /\ Len(trail) < MaxTrail /\ Held.ty = "Cow"
  /\ Convert("try_from_cow",
             {MapResult(r, "NonEmptyVec", "Cow") : r \in NonEmptyVec_try_from_cow(Held.val)})

ConvTryFromSliceForVec ==
  /\ Len(trail) < MaxTrail /\ Held.ty \in {"&[T]", "&mut [T]"}
  /\ Convert("try_from_slice_for_vec",
             {MapResult(r, "NonEmptyVec", Held.ty) : r \in NonEmptyVec_try_from_slice(Held.val)})

ConvFromStr ==
  /\ Len(trail) < MaxTrail /\ Held.ty = "&str"
  /\ Convert("from_str", {Typed("NonEmptyVec", x) : x \in NonEmptyVec_from_str(Held.val)})

ConvToVec ==
  /\ Len(trail) < MaxTrail /\ Held.ty = "NonEmptyVec"
  /\ Convert("to_vec", {Typed("Vec", NonEmptyVec_to_vec(Held.val))})

ConvIntoBoxedSlice ==
  /\ Len(trail) < MaxTrail /\ Held.ty = "NonEmptyVec"
  /\ Convert("into_boxed_slice",
             {Typed("Box<NonEmptySlice>", NonEmptyVec_into_boxed_slice(Held.val))})

ConvDeref ==
  /\ Len(trail) < MaxTrail /\ Held.ty = "NonEmptyVec"
  /\ Convert("deref", {Typed("&NonEmptySlice", NonEmptyVec_deref(Held.val))})

\* NonEmptySlice::try_from_slice on &[T], try_from_slice_mut on &mut [T]
ConvTryFromSlice ==
  /\ Len(trail) < MaxTrail /\ Held.ty \in {"&[T]", "&mut [T]"}
  /\ Convert("try_from_slice",
             {MapResult(NonEmptySlice_try_from_slice(Held.val),
                        IF Held.ty = "&[T]" THEN "&NonEmptySlice" ELSE "&mut NonEmptySlice",
                        Held.ty)})

\* TryFrom<&mut [T]> for &NonEmptySlice: try_from_slice_mut(slice).map(|x| &*x)
ConvTryFromSliceMutShared ==
  /\ Len(trail) < MaxTrail /\ Held.ty = "&mut [T]"
  /\ Convert("try_from_slice",
             {MapResult(NonEmptySlice_try_from_slice(Held.val), "&NonEmptySlice", Held.ty)})

\* NonEmptySlice::to_vec, and From<&NonEmptySlice> / From<&mut NonEmptySlice>
ConvSliceToVec ==
  /\ Len(trail) < MaxTrail
  /\ Held.ty \in {"&NonEmptySlice", "&mut NonEmptySlice", "Box<NonEmptySlice>"}
  /\ Convert("slice_to_vec", {Typed("NonEmptyVec", x) : x \in NonEmptySlice_to_vec(Held.val)})

ConvSliceIntoVec ==
  /\ Len(trail) < MaxTrail /\ Held.ty = "Box<NonEmptySlice>"
  /\ Convert("slice_into_vec", {Typed("NonEmptyVec", NonEmptySlice_into_vec(Held.val))})

ConvSliceRepeat ==
  /\ Len(trail) < MaxTrail
  /\ Held.ty \in {"&NonEmptySlice", "&mut NonEmptySlice", "Box<NonEmptySlice>"}
  /\ \E n \in 1..MaxLen :
       /\ Len(Held.val.f0) * n <= MaxLen
       /\ Convert("repeat", {Typed("NonEmptyVec", x) : x \in NonEmptySlice_repeat(Held.val, n)})

ConvTryFromSmallVec ==
  /\ Len(trail) < MaxTrail /\ Held.ty = "SmallVec"
  /\ Convert("try_from_smallvec",
             {MapResult(NonEmptySmallVec_try_from_smallvec(Held.val),
                        "NonEmptySmallVec", "SmallVec")})

\* NonEmptyVec::push on the vector a conversion produced
ConvPush ==
  /\ Len(trail) < MaxTrail /\ Held.ty = "NonEmptyVec"
  /\ Len(Elems(Held.val)) < MaxLen
  /\ \E value \in Elem :
       Convert("push", {Typed("NonEmptyVec", o.self) : o \in NonEmptyVec_push(Held.val, value)})

ConvTryFromSmallVecRefMut ==
  /\ Len(trail) < MaxTrail /\ Held.ty = "SmallVec"
  /\ LET r == NonEmptySmallVec_try_from_smallvec_ref_mut(Held.val)
     IN Convert("try_from_smallvec_ref_mut",
                {Typed("Option+SmallVec",
                       [ret |-> IF r.ret.tag = "Some"
                                THEN Some(Typed("NonEmptySmallVec", r.ret.val)) ELSE None,
                        vec |-> Typed("SmallVec", r.vec)])})

\* What a buffer-based constructor of NonEmptySmallVec comes to.
BufResult(r) ==
  IF r.tag = "Returned" THEN Typed("NonEmptySmallVec", r.val) ELSE Typed(r.tag, Unit)

\* NonEmptySmallVec::from_buf(buf), buf a [T; N] with N = Len(buf)
ConvFromBuf ==
  /\ Len(trail) < MaxTrail /\ Held.ty = "[T; N]"
  /\ Convert("from_buf", {BufResult(NonEmptySmallVec_from_buf(Held.val))})

\* NonEmptySmallVec::from_buf_and_len(buf, len), len a NonZeroUsize
ConvFromBufAndLen ==
  /\ Len(trail) < MaxTrail /\ Held.ty = "[T; N]"
  /\ \E len \in NonZeroIdx :
       Convert("from_buf_and_len",
               {BufResult(NonEmptySmallVec_from_buf_and_len(Held.val, len))})

\* NonEmptySmallVec::from(buf), From<[T; N]>
ConvFromArray ==
  /\ Len(trail) < MaxTrail /\ Held.ty = "[T; N]"
  /\ Convert("from_array", {BufResult(NonEmptySmallVec_from_array(Held.val))})

\* <[T; N]>::try_from(s), s a NonEmptyVec: cur holds N, s and the result.
ConvTryIntoArray ==
  /\ Len(trail) < MaxTrail /\ Held.ty = "NonEmptyVec"
  /\ \E N \in 0..MaxCap :
       Convert("try_into_array",
               {Typed("TryIntoArray",
                      [N |-> N, s |-> Held.val,
                       ret |-> NonEmptyVec_try_into_array(Held.val, N)])})

ConvNext ==
  \/ ConvPush
  \/ ConvTryIntoArray
  \/ ConvTryFromSmallVecRefMut
  \/ ConvFromBuf \/ ConvFromBufAndLen \/ ConvFromArray
  \/ ConvNew \/ ConvWithCapacity \/ ConvWithExactCapacity \/ ConvFromElem
  \/ ConvTryFromVec \/ ConvTryFromVecRefMut \/ ConvTryFromBox \/ ConvTryFromCow
  \/ ConvTryFromSliceForVec \/ ConvFromStr
  \/ ConvToVec \/ ConvIntoBoxedSlice \/ ConvDeref
  \/ ConvTryFromSlice \/ ConvTryFromSliceMutShared
  \/ ConvSliceToVec \/ ConvSliceIntoVec \/ ConvSliceRepeat
  \/ ConvTryFromSmallVec

ConvSpec == ConvInit /\ [][ConvNext]_vars

----------------------------------------------------------------------------
\* Properties of ConvSpec.

\* The last conversion produced a NonEmptyVec: Produced.
ProducedNonEmptyVec ==
  /\ trail # <<>>
  /\ \/ cur.ty = "NonEmptyVec"
     \/ cur.ty = "Result" /\ cur.val.tag = "Ok" /\ cur.val.val.ty = "NonEmptyVec"
     \/ cur.ty = "Option+Vec" /\ cur.val.ret.tag = "Some"
Produced == IF cur.ty = "Option+Vec" THEN cur.val.ret.val ELSE Held

\* C2: every safe way of producing a NonEmptyVec returns, for every input
\* it accepts, a vector of length >= 1.
C2_EveryProducedVecHoldsAnElement ==
  ProducedNonEmptyVec => Len(Produced.val.f0.elems) >= 1

\* C3: for every non-empty Vec C, try_from_vec(C) returns Ok, and converting
\* the result back with to_vec gives a Vec with the same element sequence.
C3_TryFromVecRoundTrip ==
  /\ (trail = <<"try_from_vec">> /\ Len(origin.val.elems) >= 1)
       => cur.val.tag = "Ok"
  /\ trail = <<"try_from_vec", "to_vec">>
       => (cur.ty = "Vec" /\ cur.val.elems = origin.val.elems)

C3_Witness ==
  /\ trail = <<"try_from_vec", "to_vec">>
  /\ Len(origin.val.elems) = MaxLen
  /\ cur.val.elems = origin.val.elems

C15_WithCapacityHoldsItemAndRoom ==
  (Len(trail) = 1 /\ trail[1] \in {"with_capacity", "with_exact_capacity"}) =>
    /\ cur.ty = "NonEmptyVec"
    /\ cur.val.f0.elems = <<origin.val.item>>
    /\ cur.val.f0.cap >= Max(origin.val.capacity, 1)

C15_Witness ==
  /\ trail = <<"with_capacity">> /\ origin.val.capacity = 0
  /\ cur.val.f0.elems = <<origin.val.item>> /\ cur.val.f0.cap >= 1

\* C20: every safe construction of a NonEmptySmallVec from an array [T; N]
\* (from_buf, from_buf_and_len, From<[T; N]>) yields a collection of length
\* >= 1, and for N = 0 no NonEmptySmallVec value at all.
C20_BufferConstructionsNeedAnElement ==
  (Len(trail) = 1 /\ trail[1] \in {"from_buf", "from_buf_and_len", "from_array"}) =>
    /\ Len(origin.val) = 0 => cur.ty # "NonEmptySmallVec"
    /\ cur.ty = "NonEmptySmallVec" => Len(cur.val.f0.elems) >= 1

\* C24: try_from_vec_ref_mut(vec) and try_from_smallvec_ref_mut(smallvec)
\* return None and leave the argument as it was when it is empty; otherwise
\* they return a non-empty collection of the argument's elements in order and
\* leave the argument empty.
C24_RefMutTakesTheElementsOrNothing ==
  (Len(trail) = 1 /\ trail[1] \in {"try_from_vec_ref_mut", "try_from_smallvec_ref_mut"}) =>
    IF origin.val.elems = <<>>
    THEN cur.val.ret = None /\ cur.val.vec = origin
    ELSE /\ cur.val.ret.tag = "Some"
         /\ Elems(cur.val.ret.val.val) = origin.val.elems
         /\ Len(Elems(cur.val.ret.val.val)) >= 1
         /\ cur.val.vec.ty = origin.ty
         /\ cur.val.vec.val.elems = <<>>

\* A spilled SmallVec of two elements was taken over and left empty.
C24_Witness ==
  /\ trail = <<"try_from_smallvec_ref_mut">>
  /\ Len(origin.val.elems) = 2 /\ origin.val.cap > InlineSize
  /\ cur.val.ret.tag = "Some" /\ cur.val.ret.val.val.f0 = origin.val
  /\ cur.val.vec.val.elems = <<>>

\* The conversions that hand on the elements they were given.
Borrowing == {"try_from_slice", "from_str", "deref"}

\* C25: NonEmptySlice::to_vec returns a NonEmptyVec with the elements of the
\* slice, hence of length >= 1, and leaves the slice as it was; a push on the
\* copy afterwards shows in the copy alone.
C25_ToVecCopiesTheSlice ==
  /\ (/\ Len(trail) >= 2 /\ trail[Len(trail)] = "slice_to_vec"
      /\ \A i \in 1..(Len(trail) - 1) : trail[i] \in Borrowing)
       => /\ cur.ty = "NonEmptyVec"
          /\ Elems(cur.val) = ElemsOf(origin)
          /\ Len(Elems(cur.val)) >= 1
  /\ (/\ Len(trail) >= 3 /\ trail[Len(trail)] = "push"
      /\ trail[Len(trail) - 1] = "slice_to_vec"
      /\ \A i \in 1..(Len(trail) - 2) : trail[i] \in Borrowing)
       => /\ Len(Elems(cur.val)) = Len(ElemsOf(origin)) + 1
          /\ Take(Elems(cur.val), Len(ElemsOf(origin))) = ElemsOf(origin)

\* C35: converting a NonEmptyVec to [T; N], N >= 1, succeeds exactly when
\* the length of the vector is N, and then returns the elements in order;
\* otherwise it returns Err carrying the vector as it was, non-empty still.
C35_ArrayConversionNeedsTheExactLength ==
  (/\ trail # <<>> /\ trail[Len(trail)] = "try_into_array"
   /\ cur.val.N >= 1)
    => LET s == cur.val.s
           r == cur.val.ret
       IN /\ r.tag = "Ok" <=> Len(Elems(s)) = cur.val.N
          /\ r.tag = "Ok" => r.val = Elems(s)
          /\ r.tag # "Ok" => /\ r.tag = "Err"
                             /\ r.val = s
                             /\ Len(Elems(r.val)) >= 1

\* The fallible conversions of an ordinary collection to the non-empty type.
FallibleConversions ==
  {"try_from_vec", "try_from_box", "try_from_cow", "try_from_smallvec"}

\* C4: for every empty ordinary collection C (Vec, Box<[T]>, Cow<[T]>,
\* SmallVec), the fallible conversion returns Err carrying C unchanged, never
\* Ok.
C4_EmptyInputComesBackInErr ==
  (Len(trail) = 1 /\ trail[1] \in FallibleConversions /\ Len(ElemsOf(origin)) = 0)
    => (cur.val.tag = "Err" /\ cur.val.val = origin)

C4_Witness ==
  /\ trail = <<"try_from_box">>
  /\ Len(ElemsOf(origin)) = 0
  /\ cur.val.tag = "Err" /\ cur.val.val = origin

====
